---- MODULE Spec2Model ----
(***************************************************************************)
(* Model of kevm-pyk's foundry proof driver (kevm_pyk/foundry.py): the     *)
(* digest ledger, the persisted proof files, proof initialisation          *)
(* (_method_to_apr_proof), and the two-phase batch scheduler               *)
(* (foundry_prove / run_cfg_group / _init_and_run_proof).                  *)
(***************************************************************************)
EXTENDS Integers, Sequences, FiniteSets, TLC

\* ------------------------------------------------------------------ bounds
MaxNodes == 5        \* node identifiers of one proof graph are 1..MaxNodes
MaxIter == 1         \* max_iterations is drawn from 0..MaxIter
MaxRuns == 2         \* foundry_prove invocations in one behaviour
MaxOps == 2          \* operator commands on persisted proofs in one behaviour
MaxFailed == 256     \* parallel_kcfg_explore returns a number of failed proofs in 0..MaxFailed
MaxCell == 4         \* a K cell the oracle answers holds at most MaxCell items
MaxRepeat == 2       \* foundry_step_node is called with repeat in 1..MaxRepeat
MaxPatterns == 2     \* matching_tests is called with at most MaxPatterns include patterns
MaxExclude == 1      \* and at most MaxExclude exclude patterns
MaxBranchIter == 4   \* the iterations of an exploration that is run as one step

\* ------------------------------------------------------- the foundry project
Contracts == {"ATest", "BTest"}   \* the contract names a project may hold
SetUpSig == "setUp()"
TestSig == "test()"
Digests == {"d1", "d2"}
NoKey == "nokey"

\* contract.methods of every contract: a test method, and setUp when present
Methods(hs) ==
  {<<c, TestSig>> : c \in Contracts} \cup {<<c, SetUpSig>> : c \in {x \in Contracts : hs[x]}}

AllUnits == Contracts \X {SetUpSig, TestSig}

contract_name(u) == u[1]
signature(u) == u[2]
is_setup(u) == u[2] = SetUpSig

\* ------------------------------------------------------------ symbolic states
\* The K cell of a configuration: one item by itself, or a KSequence of
\* items. The item "JUMPI" is JUMPI applied to a word COND, the item
\* "JUMPI bool2Word" is JUMPI applied to bool2Word(B).
KItem(item) == [type |-> "KApply", items |-> <<item>>]
KSequence(items) == [type |-> "KSequence", items |-> items]
KInit == KSequence(<<"#execute", "CONTINUATION">>)
KHalt == KSequence(<<"#halt", "CONTINUATION">>)
KJumpi == KSequence(<<"JUMPI", "#pc[JUMPI]", "#execute", "CONTINUATION">>)

\* A symbolic state: the K cell, whether the state's constraints make it
\* subsumed by the goal (the oracle's answer to implies), and the
\* normal form the state is in (template, macro-expanded, defined, simplified).
\* accts stands for the accounts cells: the default ones of _init_term, or the
\* ones execution of a contract's code (named by its digest) has produced.
CTerm(k, ok, form, accts) == [k |-> k, ok |-> ok, form |-> form, accts |-> accts]
DefaultAccts == "default"

\* a terminal check that takes no state for terminal
is_terminal_never(cterm) == FALSE

\* a terminal check that only knows the bare #halt
is_terminal_bare_halt(cterm) == cterm.k = KItem("#halt")

\* KEVM.is_terminal
is_terminal(cterm) ==
  LET k_cell == cterm.k IN
  IF k_cell = KItem("#halt") THEN TRUE
  ELSE IF k_cell.type = "KSequence"
       THEN IF Len(k_cell.items) >= 1 /\ k_cell.items[1] = "#halt"
            THEN Len(k_cell.items) > 1 /\ k_cell.items[2] # "#execute"
            ELSE FALSE
       ELSE FALSE

\* a branch condition: mlEqualsTrue of a boolean term, or of its notBool
Cond(atom) == [neg |-> FALSE, atom |-> atom]
notBool(cond) == [cond EXCEPT !.neg = ~cond.neg]

\* a branch extraction that asks for the JUMPI item only
extract_branches_any_jumpi(cterm) ==
  LET k_cell == cterm.k IN
  IF Len(k_cell.items) >= 1 /\ k_cell.items[1] \in {"JUMPI", "JUMPI bool2Word"}
  THEN <<Cond("COND ==Int 0"), notBool(Cond("COND ==Int 0"))>>
  ELSE <<>>

\* KEVM.extract_branches: the K cell matches
\* JUMPI _ COND ~> #pc[JUMPI] ~> #execute ~> CONTINUATION
extract_branches(cterm) ==
  LET k_cell == cterm.k IN
  IF /\ k_cell.type = "KSequence" /\ Len(k_cell.items) >= 4
     /\ k_cell.items[1] \in {"JUMPI", "JUMPI bool2Word"}
     /\ k_cell.items[2] = "#pc[JUMPI]" /\ k_cell.items[3] = "#execute"
  THEN LET cond == IF k_cell.items[1] = "JUMPI bool2Word" THEN Cond("B")
                   ELSE Cond("COND ==Int 0")
       IN <<cond, notBool(cond)>>
  ELSE <<>>

\* ---------------------------------------------------------------- proof graph
EmptyKCFG ==
  [nodes |-> <<>>, edges |-> {}, splits |-> {}, covers |-> {},
   init |-> {}, target |-> {}, expanded |-> {}]

\* Identifiers are handed out in order and never reused: the state kept under
\* the identifier of a removed node is Removed.
Removed == CTerm(KSequence(<<>>), FALSE, "removed", "")

NodeIds(kcfg) == {i \in DOMAIN kcfg.nodes : kcfg.nodes[i] # Removed}

\* create_node appends the state under the next unused identifier
create_node(kcfg, cterm) == [kcfg EXCEPT !.nodes = Append(kcfg.nodes, cterm)]
last_id(kcfg) == Len(kcfg.nodes)

add_init(kcfg, id) == [kcfg EXCEPT !.init = kcfg.init \cup {id}]
add_target(kcfg, id) == [kcfg EXCEPT !.target = kcfg.target \cup {id}]
add_edge(kcfg, src, dst, depth) == [kcfg EXCEPT !.edges = kcfg.edges \cup {<<src, dst, depth>>}]
add_cover(kcfg, src, dst) == [kcfg EXCEPT !.covers = kcfg.covers \cup {<<src, dst>>}]
add_split(kcfg, src, dsts) == [kcfg EXCEPT !.splits = kcfg.splits \cup {<<src, dsts>>}]
add_expanded(kcfg, id) == [kcfg EXCEPT !.expanded = kcfg.expanded \cup {id}]

\* replace_node keeps the identifier and every relation; only the state changes
replace_node(kcfg, id, cterm) == [kcfg EXCEPT !.nodes[id] = cterm]

get_unique_init(kcfg) == CHOOSE n \in kcfg.init : TRUE
get_unique_target(kcfg) == CHOOSE n \in kcfg.target : TRUE
is_target(kcfg, id) == id \in kcfg.target

Successors(kcfg, n) ==
  {e[2] : e \in {x \in kcfg.edges : x[1] = n}}
  \cup UNION {s[2] : s \in {x \in kcfg.splits : x[1] = n}}

CoverSuccessors(kcfg, n) == {c[2] : c \in {x \in kcfg.covers : x[1] = n}}

RECURSIVE ReachFrom(_, _, _, _)
ReachFrom(kcfg, seen, todo, traverse_covers) ==
  IF todo = {} THEN seen
  ELSE LET next == UNION {Successors(kcfg, n)
                           \cup (IF traverse_covers THEN CoverSuccessors(kcfg, n) ELSE {})
                           : n \in todo}
       IN ReachFrom(kcfg, seen \cup todo, next \ (seen \cup todo), traverse_covers)

reachable_nodes(kcfg, id, traverse_covers) == ReachFrom(kcfg, {}, {id}, traverse_covers)

is_leaf(kcfg, n) == Successors(kcfg, n) = {}
is_covered(kcfg, n) == CoverSuccessors(kcfg, n) # {}

frontier(kcfg) ==
  {n \in NodeIds(kcfg) :
     /\ n \in UNION {reachable_nodes(kcfg, i, FALSE) : i \in kcfg.init}
     /\ is_leaf(kcfg, n) /\ ~is_covered(kcfg, n)
     /\ ~is_target(kcfg, n) /\ n \notin kcfg.expanded}

stuck(kcfg) ==
  {n \in NodeIds(kcfg) :
     /\ n \in kcfg.expanded /\ is_leaf(kcfg, n) /\ ~is_covered(kcfg, n) /\ ~is_target(kcfg, n)}

covers_into(kcfg, target_id) == {c \in kcfg.covers : c[2] = target_id}

\* remove_node: the node goes, and with it every relation that references it
remove_node(kcfg, id) ==
  [kcfg EXCEPT !.nodes[id] = Removed,
               !.edges = {e \in kcfg.edges : e[1] # id /\ e[2] # id},
               !.covers = {c \in kcfg.covers : c[1] # id /\ c[2] # id},
               !.splits = {sp \in kcfg.splits : sp[1] # id /\ id \notin sp[2]},
               !.init = kcfg.init \ {id}, !.target = kcfg.target \ {id},
               !.expanded = kcfg.expanded \ {id}]

\* KCFGExplore.step: the oracle's answer becomes a new node, and the edge
\* from the stepped node to it is recorded
step(kcfg, node, answer, depth) ==
  LET k1 == create_node(kcfg, answer)
  IN add_edge(k1, node, last_id(k1), depth)

\* KCFGExplore.section_edge with two sections: the oracle's answer for the
\* first section becomes a new node between the ends of the edge
section_edge(kcfg, source_id, target_id, answer) ==
  LET edge == CHOOSE e \in kcfg.edges : e[1] = source_id /\ e[2] = target_id
      k1 == create_node(kcfg, answer)
      new == last_id(k1)
      k2 == [k1 EXCEPT !.edges = k1.edges \ {edge}]
  IN add_edge(add_edge(k2, source_id, new, edge[3] \div 2), new, target_id, edge[3] - (edge[3] \div 2))

section_edge_raises(kcfg, source_id, target_id) ==
  \/ ~\E e \in kcfg.edges : e[1] = source_id /\ e[2] = target_id
  \/ \E e \in kcfg.edges : e[1] = source_id /\ e[2] = target_id /\ e[3] \div 2 = 0

\* a proof: the type tag, the proof identifier, and the graph
APRProof(id, kcfg, type) == [type |-> type, id |-> id, kcfg |-> kcfg]

\* a JSON list of the elements of a set
RECURSIVE SetToSeq(_)
SetToSeq(S) ==
  IF S = {} THEN <<>>
  ELSE LET x == CHOOSE y \in S : TRUE IN <<x>> \o SetToSeq(S \ {x})

Range(seq) == {seq[j] : j \in DOMAIN seq}

Max(S) == IF S = {} THEN 0 ELSE CHOOSE x \in S : \A y \in S : y <= x

\* KCFG.to_dict: the nodes with their identifiers, the relations, and the
\* designations, as JSON lists
to_dict(kcfg) ==
  [nodes |-> SetToSeq({[id |-> i, cterm |-> kcfg.nodes[i]] : i \in NodeIds(kcfg)}),
   edges |-> SetToSeq({[source |-> e[1], target |-> e[2], depth |-> e[3]] : e \in kcfg.edges}),
   covers |-> SetToSeq({[source |-> c[1], target |-> c[2]] : c \in kcfg.covers}),
   splits |-> SetToSeq({[source |-> sp[1], targets |-> SetToSeq(sp[2])] : sp \in kcfg.splits}),
   init |-> SetToSeq(kcfg.init),
   target |-> SetToSeq(kcfg.target),
   expanded |-> SetToSeq(kcfg.expanded)]

\* KCFG.from_dict: the graph rebuilt from the JSON lists
from_dict(dct) ==
  LET ids == {n.id : n \in Range(dct.nodes)}
  IN [nodes |-> [i \in 1..Max(ids) |->
                   IF i \in ids THEN (CHOOSE n \in Range(dct.nodes) : n.id = i).cterm
                   ELSE Removed],
      edges |-> {<<e.source, e.target, e.depth>> : e \in Range(dct.edges)},
      splits |-> {<<sp.source, Range(sp.targets)>> : sp \in Range(dct.splits)},
      covers |-> {<<c.source, c.target>> : c \in Range(dct.covers)},
      init |-> Range(dct.init),
      target |-> Range(dct.target),
      expanded |-> Range(dct.expanded)]

\* Proof.dict as write_proof dumps it
proof_dict(proof) == [type |-> proof.type, id |-> proof.id, cfg |-> to_dict(proof.kcfg)]

APRProof_from_dict(dct) == APRProof(dct.id, from_dict(dct.cfg), "APRProof")
APRBMCProof_from_dict(dct) == APRProof(dct.id, from_dict(dct.cfg), "APRBMCProof")

\* a loader that builds an APRProof whatever the type tag says
load_proof_as_apr(dct) == APRProof_from_dict(dct)

\* the match on proof_dict['type'] of _method_to_apr_proof
load_proof(dct) ==
  IF dct.type = "APRProof" THEN APRProof_from_dict(dct)
  ELSE APRBMCProof_from_dict(dct)

proof_passed(proof) == frontier(proof.kcfg) = {} /\ stuck(proof.kcfg) = {}

\* ------------------------------------------------------------------- state
VARIABLES
  contracts,    \* foundry.contracts: the names of the project's contracts
  hasSetUp,     \* [Contracts -> BOOLEAN]: 'setUp' in contract.method_by_name
  mdigest,      \* [AllUnits -> Digests]: method.digest of every method
  cdigest,      \* [Contracts -> Digests]: contract.digest of every contract
  digestFile,   \* the digest ledger (out/digest): NoFile or its JSON content
  proofFiles,   \* apr_proofs/: [proof_digest -> proof file or NoProof]
  batch,        \* the running foundry_prove call
  wk,           \* [AllUnits -> the worker's progress on the unit in this run]
  mem,          \* [AllUnits -> the proof held in memory by the unit's worker]
  lastCheck,    \* what the last Foundry.up_to_date call saw and returned
  runs,         \* number of foundry_prove calls that got past their argument checks
  lastOp,       \* the last operator command on a persisted proof, and how it ended
  host          \* the apr_proofs directory, how the last prove command exited, and
                \* the order in which the file system yields the contract files

vars == <<contracts, hasSetUp, mdigest, cdigest, digestFile, proofFiles, batch, wk, mem, lastCheck, runs, lastOp,
          host>>

\* ------------------------------------------------------------ digest ledger
\* A file that may be absent is the set of its contents: {} or {content}.
NoFile == {}
File(content) == {content}
Content(file) == CHOOSE x \in file : TRUE

\* hash_str is treated as injective: the hash of a text is the text, marked
\* as a hash
hash_str(text) == "sha256(" \o text \o ")"

\* the contract names in the order of their strings
NameOrder == <<"ATest", "BTest">>
NameRank(c) == CHOOSE i \in DOMAIN NameOrder : NameOrder[i] = c

\* a sort that leaves the list as it found it
sorted_as_found(seq) == seq

RECURSIVE insert_sorted(_, _)
insert_sorted(x, seq) ==
  IF seq = <<>> THEN <<x>>
  ELSE IF NameRank(x) <= NameRank(Head(seq)) THEN <<x>> \o seq
  ELSE <<Head(seq)>> \o insert_sorted(x, Tail(seq))

RECURSIVE sort_names(_)
sort_names(seq) ==
  IF seq = <<>> THEN <<>> ELSE insert_sorted(Head(seq), sort_names(Tail(seq)))

\* sorted(): the names of the list in the order of their strings
sorted(seq) == sort_names(seq)

\* '\n'.join(texts)
RECURSIVE join(_)
join(texts) ==
  IF texts = <<>> THEN ""
  ELSE IF Len(texts) = 1 THEN texts[1]
  ELSE texts[1] \o "\n" \o join(Tail(texts))

\* Foundry.contracts: the keys of the dictionary, in the order in which the
\* sorted paths of the contract files found by the glob are inserted
Foundry_contracts(json_paths) == sorted(json_paths)

\* Foundry.digest, from the contract files in the order the glob yields them
Foundry_digest(json_paths, cd) ==
  LET names == sorted(Foundry_contracts(json_paths))
  IN hash_str(join([i \in DOMAIN names |-> cd[names[i]]]))

\* Foundry.digest of the project of the contracts cs, whose files the glob
\* yields in the order host.glob
FoundryDigest(cs, cd) == Foundry_digest(SelectSeq(host.glob, LAMBDA c : c \in cs), cd)

\* json: {} ; a key of the dictionary that may be missing is NoKey / {}
EmptyDict == [foundry |-> NoKey, methods |-> [u \in AllUnits |-> {}]]

\* Foundry.up_to_date: the file it leaves
Foundry_up_to_date_file(file) ==
  IF file = NoFile THEN NoFile
  ELSE LET digest_dict == Content(file)
       IN File(IF digest_dict.foundry = NoKey THEN [digest_dict EXCEPT !.foundry = ""] ELSE digest_dict)

\* an up-to-date check that takes a missing ledger for an up-to-date one
Foundry_up_to_date_when_absent(file, cs, cd) ==
  IF file = NoFile THEN TRUE
  ELSE Content(Foundry_up_to_date_file(file)).foundry = FoundryDigest(cs, cd)

\* Foundry.up_to_date: the returned value
Foundry_up_to_date(file, cs, cd) ==
  IF file = NoFile THEN FALSE
  ELSE Content(Foundry_up_to_date_file(file)).foundry = FoundryDigest(cs, cd)

\* an update_digest that starts from an empty dictionary
Foundry_update_digest_from_empty(file, cs, cd) ==
  File([EmptyDict EXCEPT !.foundry = FoundryDigest(cs, cd)])

\* Foundry.update_digest: the file it leaves
Foundry_update_digest(file, cs, cd) ==
  LET digest_dict == IF file = NoFile THEN EmptyDict ELSE Content(file)
  IN File([digest_dict EXCEPT !.foundry = FoundryDigest(cs, cd)])

\* Contract.Method.up_to_date, contract_up_to_date, update_digest
Method_up_to_date(file, u, md) ==
  IF file = NoFile THEN FALSE
  ELSE IF Content(file).methods[u] = {} THEN FALSE
  ELSE Content(Content(file).methods[u]).method = md[u]

Method_contract_up_to_date(file, u, cd) ==
  IF file = NoFile THEN FALSE
  ELSE IF Content(file).methods[u] = {} THEN FALSE
  ELSE Content(Content(file).methods[u]).contract = cd[contract_name(u)]

Method_update_digest(file, u, md, cd) ==
  LET digest_dict == IF file = NoFile THEN EmptyDict ELSE Content(file)
  IN File([digest_dict EXCEPT
             !.methods[u] = {[method |-> md[u], contract |-> cd[contract_name(u)]]}])

RECURSIVE UpdateAll(_, _, _, _)
UpdateAll(file, us, md, cd) ==
  IF us = {} THEN file
  ELSE LET u == CHOOSE x \in us : TRUE
       IN UpdateAll(Method_update_digest(file, u, md, cd), us \ {u}, md, cd)

\* Foundry.proof_digest: the proof identifier names the method and its digest
\* a file name that tells the contracts apart but not their methods
proof_digest_of_contract(u, md) == <<<<contract_name(u), TestSig>>, md[u]>>

\* Foundry.proof_digest: f'{contract}.{test_sig}:{digest of the method}'
proof_digest(u, md) == <<u, md[u]>>
ProofDigests == AllUnits \X Digests

\* ------------------------------------------------------------------- Init
IdleWorker == [st |-> "none", iter |-> 0, passed |-> FALSE, loaded |-> FALSE,
               oracle |-> FALSE, start |-> {}, port |-> 0, asked |-> 0]

\* the default of foundry_prove's max_depth parameter
DefaultMaxDepth == 1000

IdleBatch == [phase |-> "idle", workers |-> 1, max_iterations |-> 0, reinit |-> FALSE,
              bmc_depth |-> FALSE, max_depth |-> DefaultMaxDepth, requested |-> {},
              tests |-> {}, setups |-> {}, out_of_date |-> {}, warned |-> {},
              results |-> {}, exc |-> ""]

NoOp ==
  [seq |-> 0, cmd |-> "none", node |-> 0, raised |-> FALSE, out |-> "",
   replace |-> FALSE, repeat |-> 0, returned |-> 0]

\* no apr_proofs directory yet, no prove command has exited yet, no contract
\* file in out/
NoHost ==
  [apr_proofs |-> FALSE, cmd |-> "none", failed |-> {}, status |-> {}, glob |-> <<>>,
   matching |-> {},
   kompiled |-> [k_files |-> {}, digest |-> {}, timestamp |-> FALSE],
   kompile |-> [seq |-> 0, regen |-> FALSE, rekompile |-> FALSE, inputs |-> "", raised |-> "",
                regenerated |-> FALSE, kompiled |-> FALSE]]

NoCheck == [seen |-> "none", recorded |-> "", fresh |-> "", result |-> FALSE]

\* A freshly built project: nothing proved yet, no ledger, no proof file.
FreshProject ==
  /\ mdigest = [u \in AllUnits |-> "d1"]
  /\ cdigest = [c \in Contracts |-> "d1"]
  /\ digestFile = NoFile
  /\ proofFiles = [pd \in ProofDigests |-> NoFile]
  /\ batch = IdleBatch
  /\ wk = [u \in AllUnits |-> IdleWorker]
  /\ mem = [u \in AllUnits |-> {}]
  /\ lastCheck = NoCheck
  /\ runs = 0
  /\ lastOp = NoOp

Fresh ==
  /\ FreshProject
  /\ host = [NoHost EXCEPT !.glob = SetToSeq(contracts)]

\* a project of two test contracts; ATest has a setUp method, BTest may
\* have one
Init ==
  /\ contracts = {"ATest", "BTest"}
  /\ hasSetUp \in {[c \in Contracts |-> IF c = "ATest" THEN TRUE ELSE b] : b \in BOOLEAN}
  /\ Fresh

\* a project of one test contract that has no setUp method
InitCache ==
  /\ contracts = {"ATest"}
  /\ hasSetUp = [c \in Contracts |-> FALSE]
  /\ Fresh

NotRunning == batch.phase \in {"idle", "returned", "raised"}

\* ------------------------------------------------------------ environment
OtherDigest(d) == IF d = "d1" THEN "d2" ELSE "d1"

\* The developer edits contract c between two runs: the contract's digest
\* changes, and so do the digests of the methods ms whose own source changed.
EditSource(c, ms) ==
  /\ NotRunning
  /\ runs >= 1 /\ runs < MaxRuns
  /\ cdigest' = [cdigest EXCEPT ![c] = OtherDigest(@)]
  /\ mdigest' = [u \in AllUnits |-> IF u \in ms THEN OtherDigest(mdigest[u]) ELSE mdigest[u]]
  /\ UNCHANGED <<contracts, hasSetUp, digestFile, proofFiles, batch, wk, mem, lastCheck, runs, lastOp, host>>

\* --------------------------------------------------------- foundry_kompile
SeenOf(file) ==
  IF file = NoFile THEN "absent"
  ELSE IF Content(file).foundry = NoKey THEN "nokey" ELSE "recorded"

\* foundry_kompile: build, up_to_date(), regeneration and compilation, then
\* update_digest() when nothing raised.
Kompile(ok) ==
  /\ NotRunning
  /\ runs < MaxRuns
  /\ lastCheck' = [seen |-> SeenOf(digestFile),
                   recorded |-> IF SeenOf(digestFile) = "recorded"
                                THEN Content(digestFile).foundry ELSE "",
                   fresh |-> FoundryDigest(contracts, cdigest),
                   result |-> Foundry_up_to_date(digestFile, contracts, cdigest)]
  /\ digestFile' = IF ok THEN Foundry_update_digest(Foundry_up_to_date_file(digestFile), contracts, cdigest)
                   ELSE Foundry_up_to_date_file(digestFile)
  /\ UNCHANGED <<contracts, hasSetUp, mdigest, cdigest, proofFiles, batch, wk, mem, runs, lastOp, host>>

\* ----------------------------------------------------------- foundry_prove
all_tests == {<<c, TestSig>> : c \in contracts}

\* an out-of-date test that also fires when the contract's digest has changed
method_out_of_date_or_contract(file, m, md, reinit) ==
  ~Method_up_to_date(file, m, md) \/ ~Method_contract_up_to_date(file, m, cdigest) \/ reinit

\* an out-of-date test that also fires when the setUp method of the
\* contract is out of date
method_out_of_date_or_setup(file, m, md, reinit) ==
  \/ ~Method_up_to_date(file, m, md) \/ reinit
  \/ hasSetUp[contract_name(m)] /\ ~Method_up_to_date(file, <<contract_name(m), SetUpSig>>, md)

\* whether foundry_prove puts method m among the out-of-date methods
method_out_of_date(file, m, md, reinit) == ~Method_up_to_date(file, m, md) \/ reinit

\* Foundry.all_non_tests: the methods of the project that are not tests
all_non_tests == {<<c, SetUpSig>> : c \in {x \in contracts : hasSetUp[x]}}

\* the requested identifiers that match no method of the project
unfound_tests(tests) == tests \ (all_tests \cup all_non_tests)

\* the tests the requested identifiers match; no identifier stands for all tests
matched_tests(tests) == (IF tests = {} THEN all_tests ELSE tests) \cap all_tests

\* a matching that raises only when no test is matched
matching_tests_raises_when_none(tests) == matched_tests(tests) = {}

\* whether Foundry.matching_tests raises ValueError
matching_tests_raises(tests) == unfound_tests(tests) # {} \/ matched_tests(tests) = {}

\* argument checks that let a pool of no worker through
invalid_arguments_negative_workers(workers, max_iterations) ==
  workers < 0 \/ max_iterations < 0

\* the argument checks at the head of foundry_prove
invalid_arguments(workers, max_iterations) == workers <= 0 \/ max_iterations < 0

\* the batch of a foundry_prove call that raised before its first worker
Rejected(exc, workers, max_iterations, max_depth, tests) ==
  [IdleBatch EXCEPT !.phase = "raised", !.exc = exc, !.workers = workers,
                    !.max_iterations = max_iterations, !.max_depth = max_depth,
                    !.requested = tests]

\* foundry_prove up to the first run_cfg_group call: the argument checks, the
\* apr_proofs directory, the matched tests, the setup methods, the
\* out-of-date methods and the ledger update.
foundry_prove_with(workers, max_iterations, max_depth, reinit, requested, bmc_depth) ==
  /\ NotRunning
  /\ runs < MaxRuns
  /\ IF invalid_arguments(workers, max_iterations)
     THEN /\ batch' = Rejected("ValueError: arguments", workers, max_iterations, max_depth, requested)
          /\ UNCHANGED <<digestFile, wk, mem, runs, host>>
     ELSE IF matching_tests_raises(requested)
     THEN /\ batch' = Rejected("ValueError: tests", workers, max_iterations, max_depth, requested)
          /\ host' = [host EXCEPT !.apr_proofs = TRUE]
          /\ UNCHANGED <<digestFile, wk, mem, runs>>
     ELSE LET tests == matched_tests(requested)
              test_contracts == {contract_name(t) : t \in tests}
              setup_methods == {<<c, SetUpSig>> : c \in {x \in test_contracts : hasSetUp[x]}}
              test_methods == tests \cup setup_methods
              out_of_date_methods ==
                {m \in test_methods : method_out_of_date(digestFile, m, mdigest, reinit)}
              warned == {m \in test_methods \ out_of_date_methods :
                           ~Method_contract_up_to_date(digestFile, m, cdigest)}
          IN /\ batch' = [phase |-> "setup", workers |-> workers,
                          max_iterations |-> max_iterations,
                          reinit |-> reinit, bmc_depth |-> bmc_depth,
                          max_depth |-> max_depth, requested |-> requested,
                          tests |-> tests, setups |-> setup_methods,
                          out_of_date |-> out_of_date_methods, warned |-> warned,
                          results |-> {}, exc |-> ""]
             /\ digestFile' = UpdateAll(digestFile, test_methods, mdigest, cdigest)
             /\ host' = [host EXCEPT !.apr_proofs = TRUE]
             /\ wk' = [u \in AllUnits |-> IdleWorker]
             /\ mem' = [u \in AllUnits |-> {}]
             /\ runs' = runs + 1
  /\ UNCHANGED <<contracts, hasSetUp, mdigest, cdigest, proofFiles, lastCheck, lastOp>>

\* foundry_prove called with the default max_depth
foundry_prove(workers, max_iterations, reinit, tests, bmc_depth) ==
  foundry_prove_with(workers, max_iterations, DefaultMaxDepth, reinit, tests, bmc_depth)

\* foundry_prove called without a bmc_depth
ProveStart(workers, max_iterations, reinit, tests) ==
  foundry_prove(workers, max_iterations, reinit, tests, FALSE)

\* a scheduler that hands setup and test units to one pool together
Group_one_pool ==
  IF batch.phase = "setup" THEN batch.setups \cup batch.tests
  ELSE IF batch.phase = "tests" THEN batch.tests ELSE {}

\* the units run_cfg_group hands to the pool in the current phase
Group == IF batch.phase = "setup" THEN batch.setups
         ELSE IF batch.phase = "tests" THEN batch.tests ELSE {}

InFlight == {u \in AllUnits : wk[u].st = "running"}

\* a pool that starts a process for every unit it is handed
free_worker_always == TRUE

\* ProcessPool(ncpus=workers): a unit is started only on a process of the
\* pool that runs no other unit
free_worker == Cardinality(InFlight) < batch.workers

\* ---------------------------------------------------- proof initialisation
\* a get_final_accounts_cell that raises only when no node is covered into
\* the target
final_accounts_raises_when_none(files, setup_digest) ==
  \/ files[setup_digest] = NoFile
  \/ LET kcfg == Content(files[setup_digest]).kcfg
     IN covers_into(kcfg, get_unique_target(kcfg)) = {}

\* get_final_accounts_cell: the accounts of the single node covered into the
\* target of the persisted setUp proof; raises when the proof file is
\* missing or the covers into the target are not exactly one.
final_accounts_raises(files, setup_digest) ==
  \/ files[setup_digest] = NoFile
  \/ LET kcfg == Content(files[setup_digest]).kcfg
     IN Cardinality(covers_into(kcfg, get_unique_target(kcfg))) # 1

get_final_accounts_cell(files, setup_digest) ==
  LET kcfg == Content(files[setup_digest]).kcfg
      cover == CHOOSE c \in covers_into(kcfg, get_unique_target(kcfg)) : TRUE
  IN kcfg.nodes[cover[1]].accts

\* _method_to_cfg: the init and target template nodes, no relation
method_to_cfg(accts) ==
  LET cfg0 == create_node(EmptyKCFG, CTerm(KInit, FALSE, "template", accts))
      cfg1 == add_init(cfg0, last_id(cfg0))
      cfg2 == create_node(cfg1, CTerm(KHalt, TRUE, "template", "final"))
  IN add_target(cfg2, last_id(cfg2))

\* kcfg_explore.simplify: every node's state replaced by its simplified form
RECURSIVE simplify_nodes(_, _)
simplify_nodes(kcfg, ids) ==
  IF ids = {} THEN kcfg
  ELSE LET id == CHOOSE x \in ids : TRUE
       IN simplify_nodes(replace_node(kcfg, id, [kcfg.nodes[id] EXCEPT !.form = "simplified"]),
                         ids \ {id})

\* the else branch of _method_to_apr_proof (lines 862-894), oracle answering
fresh_proof(u, accts, simplify_init, bmc_depth) ==
  LET kcfg == method_to_cfg(accts)
      target_id == get_unique_target(kcfg)
      kcfg1 == replace_node(kcfg, target_id, [kcfg.nodes[target_id] EXCEPT !.form = "expanded"])
      init_id == get_unique_init(kcfg1)
      kcfg2 == replace_node(kcfg1, init_id, [kcfg1.nodes[init_id] EXCEPT !.form = "defined"])
      kcfg3 == IF simplify_init THEN simplify_nodes(kcfg2, NodeIds(kcfg2)) ELSE kcfg2
  IN APRProof(proof_digest(u, mdigest), kcfg3, IF bmc_depth THEN "APRBMCProof" ELSE "APRProof")

\* a load test that forgets the reinit argument
reads_persisted_despite_reinit(files, pd, reinit) == files[pd] # NoFile

\* a load test that never finds the persisted proof
reads_persisted_never(files, pd, reinit) == FALSE

\* whether _method_to_apr_proof takes the branch that reads the persisted proof
reads_persisted(files, pd, reinit) == files[pd] # NoFile /\ ~reinit

\* _method_to_apr_proof: [raised, proof, loaded, oracle]; crash is whether an
\* oracle call made while initialising dies.
method_to_apr_proof(files, u, reinit, crash) ==
  LET pd == proof_digest(u, mdigest)
      uses_setup == signature(u) # SetUpSig /\ hasSetUp[contract_name(u)]
      setup_digest == proof_digest(<<contract_name(u), SetUpSig>>, mdigest)
  IN IF reads_persisted(files, pd, reinit)
     THEN [raised |-> FALSE, proof |-> File(load_proof(proof_dict(Content(files[pd])))),
           loaded |-> TRUE, oracle |-> FALSE]
     ELSE IF uses_setup /\ final_accounts_raises(files, setup_digest)
     THEN [raised |-> TRUE, proof |-> {}, loaded |-> FALSE, oracle |-> FALSE]
     ELSE IF crash
     THEN [raised |-> TRUE, proof |-> {}, loaded |-> FALSE, oracle |-> TRUE]
     ELSE [raised |-> FALSE,
           proof |-> File(fresh_proof(u, IF uses_setup
                                        THEN get_final_accounts_cell(files, setup_digest)
                                        ELSE DefaultAccts, TRUE, batch.bmc_depth)),
           loaded |-> FALSE, oracle |-> TRUE]

\* the ports on which the explorer of a unit in flight has its server
live_ports == {wk[u].port : u \in InFlight}

\* the explorer's default port: a port of the host no live server listens on
free_port ==
  CHOOSE p \in 1..Cardinality(AllUnits) :
    p \notin live_ports /\ \A q \in 1..(p - 1) : q \in live_ports

\* one explorer opened before the pool starts and used by every call
KCFGExplore_shared(u) == 1

\* with KCFGExplore(...) as kcfg_explore: the call for unit u opens an
\* explorer of its own, closed when the call ends; the endpoint it gets
KCFGExplore_open(u) == free_port

\* _init_and_run_proof up to the kevm_apr_prove call: the pool hands unit u
\* to a free worker, which opens its explorer and initialises the proof.
WorkerInit(u, crash) ==
  /\ u \in Group
  /\ wk[u].st = "none"
  /\ free_worker
  /\ LET r == method_to_apr_proof(proofFiles, u, u \in batch.out_of_date, crash)
     IN /\ wk' = [wk EXCEPT ![u] = [st |-> IF r.raised THEN "raised" ELSE "running",
                                    iter |-> 0, passed |-> FALSE, loaded |-> r.loaded,
                                    oracle |-> r.oracle,
                                    start |-> IF r.loaded THEN r.proof ELSE {},
                                    port |-> IF r.raised THEN 0 ELSE KCFGExplore_open(u),
                                    asked |-> IF r.raised \/ ~r.oracle THEN 0
                                              ELSE KCFGExplore_open(u)]]
        /\ mem' = [mem EXCEPT ![u] = r.proof]
        /\ proofFiles' = IF r.raised THEN proofFiles
                         ELSE [proofFiles EXCEPT ![proof_digest(u, mdigest)] = r.proof]
  /\ UNCHANGED <<contracts, hasSetUp, mdigest, cdigest, digestFile, batch, lastCheck, runs, lastOp, host>>

\* ------------------------------------------------------------ exploration
\* What the oracle's step can answer: a terminal state that implies the goal
\* or does not, a state that keeps executing, or a pending JUMPI.
StepAnswers(accts) ==
  {CTerm(KHalt, TRUE, "executed", accts), CTerm(KHalt, FALSE, "executed", accts),
   CTerm(KInit, FALSE, "executed", accts), CTerm(KJumpi, FALSE, "executed", accts)}

\* terminal check and goal subsumption of node n: a cover into the target,
\* or the node is left stuck
check_terminal(kcfg, n) ==
  IF kcfg.nodes[n].ok THEN add_cover(kcfg, n, get_unique_target(kcfg))
  ELSE add_expanded(kcfg, n)

is_split_child(kcfg, n) == \E sp \in kcfg.splits : n \in sp[2]

\* number of new nodes one iteration on node n needs
nodes_needed(kcfg, n) ==
  IF is_terminal(kcfg.nodes[n]) THEN 0
  ELSE IF extract_branches(kcfg.nodes[n]) # <<>> /\ ~is_split_child(kcfg, n) THEN 2 ELSE 1

\* one iteration of the exploration loop on frontier node n; answer is the
\* state the oracle returns should the iteration call step
explore_node(kcfg, n, answer) ==
  LET cterm == kcfg.nodes[n] IN
  IF is_terminal(cterm) THEN check_terminal(kcfg, n)
  ELSE IF extract_branches(cterm) # <<>> /\ ~is_split_child(kcfg, n)
  THEN LET k1 == create_node(kcfg, cterm)
           k2 == create_node(k1, cterm)
       IN add_split(k2, n, {last_id(k1), last_id(k2)})
  ELSE LET k1 == create_node(kcfg, answer)
           k2 == add_edge(k1, n, last_id(k1), 1)
       IN IF is_terminal(answer) THEN check_terminal(k2, last_id(k1)) ELSE k2

next_frontier(kcfg) == CHOOSE n \in frontier(kcfg) : \A m \in frontier(kcfg) : n <= m

\* a loop test that ignores the iteration bound
loop_ended_without_bound(u) == frontier(Content(mem[u]).kcfg) = {}

loop_ended(u) ==
  \/ frontier(Content(mem[u]).kcfg) = {}
  \/ wk[u].iter >= batch.max_iterations

\* One iteration of kevm_apr_prove's loop for unit u, the proof persisted
\* after it; an oracle call that dies is caught and fails the unit.
WorkerExplore(u, answer, crash) ==
  /\ wk[u].st = "running"
  /\ ~loop_ended(u)
  /\ LET proof == Content(mem[u])
         n == next_frontier(proof.kcfg)
     IN /\ Len(proof.kcfg.nodes) + nodes_needed(proof.kcfg, n) <= MaxNodes
        /\ answer \in StepAnswers(cdigest[contract_name(u)])
        /\ IF crash
           THEN /\ wk' = [wk EXCEPT ![u].st = "done", ![u].passed = FALSE, ![u].oracle = TRUE,
                                         ![u].port = 0, ![u].asked = 0]
                /\ UNCHANGED <<mem, proofFiles>>
           ELSE LET proof2 == [proof EXCEPT !.kcfg = explore_node(proof.kcfg, n, answer)]
                IN /\ wk' = [wk EXCEPT ![u].iter = @ + 1, ![u].oracle = TRUE,
                                              ![u].asked = wk[u].port]
                   /\ mem' = [mem EXCEPT ![u] = File(proof2)]
                   /\ proofFiles' = [proofFiles EXCEPT ![proof_digest(u, mdigest)] = File(proof2)]
  /\ UNCHANGED <<contracts, hasSetUp, mdigest, cdigest, digestFile, batch, lastCheck, runs, lastOp, host>>

\* kevm_apr_prove returns: passed iff no frontier and no stuck node is left
WorkerFinish(u) ==
  /\ wk[u].st = "running"
  /\ loop_ended(u)
  /\ wk' = [wk EXCEPT ![u].st = "done", ![u].passed = proof_passed(Content(mem[u])),
                       ![u].port = 0, ![u].asked = 0]
  /\ UNCHANGED <<contracts, hasSetUp, mdigest, cdigest, digestFile, proofFiles, batch, mem, lastCheck, runs, lastOp, host>>

\* ------------------------------------------------------------ run_cfg_group
\* foundry_prove has ended: what it was asked, and what it returned or raised
Ended(phase, exc, results) ==
  [IdleBatch EXCEPT !.phase = phase, !.exc = exc, !.results = results,
                    !.tests = batch.tests, !.setups = batch.setups]

\* a check of the setup results that finds no failure
failed_setups_none(results) == {}

\* the setup methods whose result is not passed
failed_setups(results) == {r[1] : r \in {x \in results : ~x[2]}}

\* process_pool.map returns once every unit of the group has ended; an
\* exception raised in a worker is re-raised by map in foundry_prove.
PhaseDone ==
  /\ batch.phase \in {"setup", "tests"}
  /\ \A u \in Group : wk[u].st \in {"done", "raised"}
  /\ LET results == {<<u, wk[u].passed>> : u \in Group}
         failed == failed_setups(results)
     IN batch' =
          IF \E u \in Group : wk[u].st = "raised"
          THEN Ended("raised", "worker", {})
          ELSE IF batch.phase = "setup"
          THEN IF failed # {}
               THEN Ended("raised", "setup", {})
               ELSE [batch EXCEPT !.phase = "tests"]
          ELSE Ended("returned", "", results)
  \* the pool's processes, and what they held in memory, are gone when
  \* foundry_prove ends
  /\ IF batch'.phase = "tests"
     THEN UNCHANGED <<wk, mem>>
     ELSE /\ wk' = [u \in AllUnits |-> IdleWorker]
          /\ mem' = [u \in AllUnits |-> {}]
  /\ UNCHANGED <<contracts, hasSetUp, mdigest, cdigest, digestFile, proofFiles, lastCheck, runs, lastOp, host>>

\* ------------------------------------------------------- operator commands
\* a loop that deletes the nodes from the node list without calling
\* remove_node
remove_nodes_from_node_list(kcfg, ids) ==
  [kcfg EXCEPT !.nodes = [i \in DOMAIN kcfg.nodes |-> IF i \in ids THEN Removed ELSE kcfg.nodes[i]]]

\* the loop of foundry_remove_node: remove_node on each of the nodes
RECURSIVE remove_nodes(_, _)
remove_nodes(kcfg, ids) ==
  IF ids = {} THEN kcfg
  ELSE LET id == CHOOSE x \in ids : TRUE
       IN remove_nodes(remove_node(kcfg, id), ids \ {id})

\* foundry_remove_node: the graph it persists
foundry_remove_node(kcfg, node) ==
  remove_nodes(kcfg, {n \in reachable_nodes(kcfg, node, TRUE) : ~is_target(kcfg, n)})

\* a simplify-node that, with replace, replaces the state of every node by
\* its simplified form
foundry_simplify_node_every_node(kcfg, node, replace) ==
  IF replace
  THEN [kcfg EXCEPT !.nodes = [i \in DOMAIN kcfg.nodes |->
                                 IF kcfg.nodes[i] = Removed THEN Removed
                                 ELSE [kcfg.nodes[i] EXCEPT !.form = "simplified"]]]
  ELSE kcfg

\* a simplify-node that drops the node and stores the simplified state as a
\* new node
foundry_simplify_node_as_new_node(kcfg, node, replace) ==
  IF replace
  THEN create_node(remove_node(kcfg, node), [kcfg.nodes[node] EXCEPT !.form = "simplified"])
  ELSE kcfg

\* foundry_simplify_node: the graph it leaves
foundry_simplify_node(kcfg, node, replace) ==
  IF replace THEN replace_node(kcfg, node, [kcfg.nodes[node] EXCEPT !.form = "simplified"])
  ELSE kcfg

\* foundry_step_node with repeat = 1: the graph it persists
foundry_step_node(kcfg, node, answer, depth) == step(kcfg, node, answer, depth)

\* the loop of foundry_step_node: each step starts at the node the step
\* before it returned; graphs[i + 1] is the graph after i steps
RECURSIVE step_loop(_, _, _, _)
step_loop(kcfg, node, answers, depth) ==
  IF answers = <<>> THEN <<kcfg>>
  ELSE LET k1 == step(kcfg, node, Head(answers), depth)
       IN <<kcfg>> \o step_loop(k1, last_id(k1), Tail(answers), depth)

\* a foundry_step_node that calls write_proof once, after the loop
foundry_step_node_write_at_end(kcfg, node, answers, depth, returned) ==
  IF returned = Len(answers) THEN step_loop(kcfg, node, answers, depth)[returned + 1] ELSE kcfg

\* foundry_step_node with repeat = Len(answers), of which the first
\* `returned` steps came back from the oracle: the graph that the last
\* write_proof of the loop persisted
foundry_step_node_repeat(kcfg, node, answers, depth, returned) ==
  step_loop(kcfg, node, answers, depth)[returned + 1]

\* foundry_section_edge with sections = 2: the graph it persists
foundry_section_edge(kcfg, source_id, target_id, answer) ==
  section_edge(kcfg, source_id, target_id, answer)

\* an operator may run a command when no foundry_prove call is running
CanOperate == NotRunning /\ runs >= 1

\* read_proof raises when there is no proof file
read_raises(u) == proofFiles[proof_digest(u, mdigest)] = NoFile
read_proof(u) == Content(proofFiles[proof_digest(u, mdigest)])

\* the command ends: it raised or not, and the last graph it handed to
\* write_proof, if it got that far, is in the proof file; replace and repeat
\* are the flags it was called with, returned counts the oracle steps that
\* came back
Operation(u, cmd, node, raised, written, kcfg, replace, repeat, returned) ==
  /\ lastOp' = [seq |-> lastOp.seq + 1, cmd |-> cmd, node |-> node, raised |-> raised, out |-> "",
                replace |-> replace, repeat |-> repeat, returned |-> returned]
  /\ proofFiles' = IF written
                   THEN [proofFiles EXCEPT ![proof_digest(u, mdigest)] =
                           File([read_proof(u) EXCEPT !.kcfg = kcfg])]
                   ELSE proofFiles
  /\ UNCHANGED <<contracts, hasSetUp, mdigest, cdigest, digestFile, batch, wk, mem, lastCheck, runs, host>>

\* the command ends: raised, the file untouched, or the graph persisted
Operated(u, cmd, node, raised, kcfg) ==
  Operation(u, cmd, node, raised, ~raised, kcfg, FALSE, 0, 0)

\* reachable_nodes looks the start node up first
reachable_nodes_raises_never(kcfg, id) == FALSE

\* reachable_nodes looks the start node up first, which raises when the
\* graph has no node of that identifier
reachable_nodes_raises(kcfg, id) == id \notin NodeIds(kcfg)

RemoveNode(u, node) ==
  /\ CanOperate
  /\ LET raised == read_raises(u) \/ reachable_nodes_raises(read_proof(u).kcfg, node)
     IN Operated(u, "remove_node", node, raised, foundry_remove_node(read_proof(u).kcfg, node))

SimplifyNode(u, node, replace, crash) ==
  /\ CanOperate
  /\ LET raised == read_raises(u) \/ node \notin NodeIds(read_proof(u).kcfg) \/ crash
     IN Operation(u, "simplify_node", node, raised, ~raised /\ replace,
                  foundry_simplify_node(read_proof(u).kcfg, node, replace), replace, 0, 0)

StepNode(u, node, answer, depth, crash) ==
  /\ CanOperate
  /\ LET raised == \/ read_raises(u) \/ crash
                   \/ node \notin NodeIds(read_proof(u).kcfg)
     IN /\ IF raised THEN TRUE ELSE Len(read_proof(u).kcfg.nodes) < MaxNodes
        /\ Operated(u, "step_node", node, raised,
                    foundry_step_node(read_proof(u).kcfg, node, answer, depth))

\* foundry_step_node with repeat = Len(answers); failing is the step at
\* which the oracle fails (0: none does), and a step from a node that the
\* graph does not have fails
StepNodeRepeat(u, node, answers, depth, failing) ==
  /\ CanOperate
  /\ LET repeat == Len(answers)
         first_failed == IF read_raises(u) THEN 0
                         ELSE IF node \notin NodeIds(read_proof(u).kcfg) THEN 1 ELSE failing
         returned == IF read_raises(u) THEN 0
                     ELSE IF first_failed = 0 THEN repeat ELSE first_failed - 1
         raised == read_raises(u) \/ first_failed > 0
     IN /\ IF read_raises(u) THEN TRUE ELSE Len(read_proof(u).kcfg.nodes) + returned <= MaxNodes
        /\ Operation(u, "step_node", node, raised, returned > 0,
                     foundry_step_node_repeat(read_proof(u).kcfg, node, answers, depth, returned),
                     FALSE, repeat, returned)

SectionEdge(u, source_id, target_id, answer, crash) ==
  /\ CanOperate
  /\ LET raised == \/ read_raises(u) \/ crash
                   \/ section_edge_raises(read_proof(u).kcfg, source_id, target_id)
     IN /\ IF raised THEN TRUE ELSE Len(read_proof(u).kcfg.nodes) < MaxNodes
        /\ Operated(u, "section_edge", source_id, raised,
                    foundry_section_edge(read_proof(u).kcfg, source_id, target_id, answer))

\* exec_foundry_list with the second test not nested in the first
proven_not_nested(kcfg) ==
  LET frontier_nodes == Cardinality(frontier(kcfg))
      stuck_nodes == Cardinality(stuck(kcfg))
  IN IF frontier_nodes = 0 THEN "passed"
     ELSE IF stuck_nodes = 0 THEN "pending" ELSE "failed"

\* exec_foundry_list: the status it prints for a graph
proven(kcfg) ==
  LET frontier_nodes == Cardinality(frontier(kcfg))
      stuck_nodes == Cardinality(stuck(kcfg))
  IN IF stuck_nodes = 0
     THEN IF frontier_nodes = 0 THEN "passed" ELSE "pending"
     ELSE "failed"

\* the operator lists the persisted proofs; out is the status printed for
\* the proof of unit u
List(u) ==
  /\ CanOperate
  /\ ~read_raises(u)
  /\ lastOp' = [NoOp EXCEPT !.seq = lastOp.seq + 1, !.cmd = "list",
                             !.out = proven(read_proof(u).kcfg)]
  /\ UNCHANGED <<contracts, hasSetUp, mdigest, cdigest, digestFile, proofFiles, batch, wk, mem, lastCheck, runs, host>>

\* --------------------------------------------------------------- _write_cfg
\* what a reader finds in a file that was opened for writing and not yet
\* written: no JSON document
Truncated == [type |-> "", id |-> <<<<"", "">>, "">>, kcfg |-> EmptyKCFG]

\* _write_cfg(cfg, path) is path.write_text(cfg.to_json()): the file is
\* opened for writing, which empties it ...
WriteCfgOpen(u, cfg) ==
  /\ NotRunning /\ runs >= 1
  /\ wk[u].st = "none"
  /\ ~read_raises(u) /\ read_proof(u) # Truncated
  /\ wk' = [wk EXCEPT ![u].st = "writing"]
  /\ mem' = [mem EXCEPT ![u] = File([read_proof(u) EXCEPT !.kcfg = cfg])]
  /\ proofFiles' = [proofFiles EXCEPT ![proof_digest(u, mdigest)] = File(Truncated)]
  /\ UNCHANGED <<contracts, hasSetUp, mdigest, cdigest, digestFile, batch, lastCheck, runs, lastOp, host>>

\* ... then the text is written and the file closed
WriteCfgWrite(u) ==
  /\ wk[u].st = "writing"
  /\ proofFiles' = [proofFiles EXCEPT ![proof_digest(u, mdigest)] = mem[u]]
  /\ wk' = [wk EXCEPT ![u].st = "none"]
  /\ mem' = [mem EXCEPT ![u] = {}]
  /\ UNCHANGED <<contracts, hasSetUp, mdigest, cdigest, digestFile, batch, lastCheck, runs, lastOp, host>>

\* the process dies between the two
WriteCfgCrash(u) ==
  /\ wk[u].st = "writing"
  /\ wk' = [wk EXCEPT ![u].st = "none"]
  /\ mem' = [mem EXCEPT ![u] = {}]
  /\ UNCHANGED <<contracts, hasSetUp, mdigest, cdigest, digestFile, proofFiles, batch, lastCheck, runs, lastOp, host>>

\* --------------------------------------------------------------------- Next
ProveCall(worker_counts, iteration_bounds) ==
  \E workers \in worker_counts, max_iterations \in iteration_bounds, reinit \in BOOLEAN,
     tests \in (SUBSET all_tests) \ {{}} :
     ProveStart(workers, max_iterations, reinit, tests)

Starts == \E u \in AllUnits, crash \in BOOLEAN : WorkerInit(u, crash)

StartsQuiet == \E u \in AllUnits : WorkerInit(u, FALSE)

Explores ==
  \E u \in AllUnits, crash \in BOOLEAN :
    \E answer \in StepAnswers(cdigest[contract_name(u)]) : WorkerExplore(u, answer, crash)

Finishes == \E u \in AllUnits : WorkerFinish(u)

Edits ==
  \E c \in contracts, ms \in SUBSET AllUnits :
    /\ \A m \in ms : contract_name(m) = c /\ m \in Methods(hasSetUp)
    /\ EditSource(c, ms)

\* one foundry_prove call, with one or two workers, on a freshly built
\* project of two contracts
Next ==
  \/ runs = 0 /\ ProveCall(1..2, 0..MaxIter)
  \/ Starts
  \/ Explores
  \/ Finishes
  \/ PhaseDone

Spec == Init /\ [][Next]_vars

\* repeated foundry_prove calls on a project of one contract, the sources
\* edited in between
NextCache ==
  \/ Edits
  \/ ProveCall({1}, 0..MaxIter)
  \/ Starts
  \/ Explores
  \/ Finishes
  \/ PhaseDone

SpecCache == InitCache /\ [][NextCache]_vars

\* repeated foundry_kompile calls and foundry_prove calls that only
\* initialise (max_iterations = 0), the sources edited in between
NextKompile ==
  \/ Edits
  \/ \E ok \in BOOLEAN : Kompile(ok)
  \/ ProveCall({1}, {0})
  \/ Starts
  \/ Finishes
  \/ PhaseDone

SpecKompile == InitCache /\ [][NextKompile]_vars

\* the states the rewriting oracle hands an operator command: a halted one
\* and a running one (the commands store the state without inspecting it)
OperatorAnswers(accts) ==
  {CTerm(KHalt, TRUE, "executed", accts), CTerm(KInit, FALSE, "executed", accts)}

Lists == \E u \in all_tests : List(u)

Removes == \E u \in all_tests, node \in 1..MaxNodes : RemoveNode(u, node)

Simplifies ==
  \E u \in all_tests, node \in 1..MaxNodes, replace \in BOOLEAN, crash \in BOOLEAN :
    SimplifyNode(u, node, replace, crash)

Steps ==
  \E u \in all_tests, node \in 1..MaxNodes, depth \in 1..2, crash \in BOOLEAN :
    \E answer \in OperatorAnswers(cdigest[contract_name(u)]) : StepNode(u, node, answer, depth, crash)

Sections ==
  \E u \in all_tests, source_id \in 1..MaxNodes, target_id \in 1..MaxNodes, crash \in BOOLEAN :
    \E answer \in {CTerm(KInit, FALSE, "executed", cdigest[contract_name(u)])} :
      SectionEdge(u, source_id, target_id, answer, crash)

\* one foundry_prove call on a project of one contract, then operator
\* commands on the persisted proof
NextOps ==
  \/ runs = 0 /\ ProveCall({1}, 0..MaxIter)
  \/ Starts
  \/ Explores
  \/ Finishes
  \/ PhaseDone
  \/ lastOp.seq < MaxOps /\ Removes
  \/ lastOp.seq < MaxOps /\ Simplifies
  \/ lastOp.seq < MaxOps /\ Steps
  \/ lastOp.seq < MaxOps /\ Sections
  \/ lastOp.seq < MaxOps /\ Lists

SpecOps == InitCache /\ [][NextOps]_vars

\* one foundry_prove call on a project of one contract, then one operator
\* command on a node of the persisted proof
StepRepeats ==
  \E u \in all_tests, node \in 1..MaxNodes, repeat \in 1..MaxRepeat :
    \E answers \in [1..repeat -> OperatorAnswers(cdigest[contract_name(u)])], failing \in 0..repeat :
      StepNodeRepeat(u, node, answers, 1, failing)

NextNode ==
  \/ runs = 0 /\ ProveCall({1}, 0..MaxIter)
  \/ Starts
  \/ Explores
  \/ Finishes
  \/ PhaseDone
  \/ lastOp.seq = 0 /\ Removes
  \/ lastOp.seq = 0 /\ Simplifies
  \/ lastOp.seq = 0 /\ StepRepeats

SpecNode == InitCache /\ [][NextNode]_vars

\* two foundry_prove calls of one iteration each on a project of one
\* contract; the operator steps nodes by hand and removes nodes
StepsByHand ==
  \E u \in all_tests, node \in 1..MaxNodes :
    \E answer \in OperatorAnswers(cdigest[contract_name(u)]) : StepNode(u, node, answer, 1, FALSE)

NextRemove ==
  \/ ProveCall({1}, {MaxIter})
  \/ Starts
  \/ Explores
  \/ Finishes
  \/ PhaseDone
  \/ lastOp.seq < MaxOps + 1 /\ Removes
  \/ lastOp.seq < MaxOps + 1 /\ StepsByHand

SpecRemove == InitCache /\ [][NextRemove]_vars

\* one foundry_prove call on a project of one contract, then graphs edited
\* by the operator are written over the proof file with _write_cfg
WriteCfgs ==
  \E u \in all_tests :
    \/ /\ ~read_raises(u)
       /\ \E node \in NodeIds(read_proof(u).kcfg) :
            \/ WriteCfgOpen(u, foundry_remove_node(read_proof(u).kcfg, node))
            \/ WriteCfgOpen(u, foundry_simplify_node(read_proof(u).kcfg, node, TRUE))
            \/ /\ Len(read_proof(u).kcfg.nodes) < MaxNodes
               /\ \E answer \in OperatorAnswers(cdigest[contract_name(u)]) :
                    WriteCfgOpen(u, foundry_step_node(read_proof(u).kcfg, node, answer, 1))
    \/ WriteCfgWrite(u)
    \/ WriteCfgCrash(u)

NextPersist ==
  \/ runs = 0 /\ ProveCall({1}, 0..MaxIter)
  \/ Starts
  \/ Explores
  \/ Finishes
  \/ PhaseDone
  \/ WriteCfgs

SpecPersist == InitCache /\ [][NextPersist]_vars

\* repeated foundry_prove calls, with or without a bmc_depth, on a project
\* of one contract; the operator removes nodes in between
ProveCallBmc ==
  \E max_iterations \in 0..MaxIter, reinit \in BOOLEAN, bmc_depth \in BOOLEAN,
     tests \in (SUBSET all_tests) \ {{}} :
     foundry_prove(1, max_iterations, reinit, tests, bmc_depth)

NextReload ==
  \/ ProveCallBmc
  \/ Starts
  \/ Explores
  \/ Finishes
  \/ PhaseDone
  \/ lastOp.seq < MaxOps /\ Removes

SpecReload == InitCache /\ [][NextReload]_vars

\* a project of one test contract that has a setUp method
InitConfig ==
  /\ contracts = {"ATest"}
  /\ hasSetUp = [c \in Contracts |-> c = "ATest"]
  /\ Fresh

\* the identifiers a caller may request: a test and the setUp method of the
\* project, and a test of a contract the project does not hold
RequestableTests == {<<"ATest", TestSig>>, <<"ATest", SetUpSig>>, <<"BTest", TestSig>>}

\* foundry_prove called with any worker count, iteration bound, depth bound
\* and requested identifiers
ProveRequest ==
  \E workers \in 0..1, max_iterations \in -1..MaxIter, max_depth \in {-1, DefaultMaxDepth},
     requested \in SUBSET RequestableTests :
     foundry_prove_with(workers, max_iterations, max_depth, FALSE, requested, FALSE)

\* foundry_prove called with no worker, with a negative iteration bound or
\* with the identifier of a test the project does not hold
ProveBadRequest ==
  \E workers \in 0..1, max_iterations \in -1..MaxIter, max_depth \in {-1, DefaultMaxDepth},
     requested \in SUBSET RequestableTests :
     /\ workers = 0 \/ max_iterations = -1 \/ <<"BTest", TestSig>> \in requested
     /\ foundry_prove_with(workers, max_iterations, max_depth, FALSE, requested, FALSE)

\* a first foundry_prove call with any arguments, then calls with bad ones
NextConfig ==
  \/ runs = 0 /\ ProveRequest
  \/ runs >= 1 /\ ProveBadRequest
  \/ Starts
  \/ Explores
  \/ Finishes
  \/ PhaseDone

SpecConfig == InitConfig /\ [][NextConfig]_vars

\* while some worker process can take a step of its loop, one of them
\* eventually does: the oracle answers or dies, and the processes are
\* scheduled
WorkerStep == Explores \/ Finishes

\* one foundry_prove call, with one or two workers, on a project of one
\* contract that has a setUp method
NextLive ==
  \/ runs = 0 /\ ProveCall(1..2, 0..MaxIter)
  \/ Starts
  \/ Explores
  \/ Finishes
  \/ PhaseDone

SpecLive == InitConfig /\ [][NextLive]_vars /\ WF_vars(WorkerStep)

\* ------------------------------------------------- the prove commands' exit
\* sys.exit(code) with an integer: the status the parent process sees is the
\* low eight bits of code
exit_status(code) == code % 256

\* how the command cmd ends when parallel_kcfg_explore returned failed, the
\* number of the proofs that did not pass
Exited(cmd, failed) ==
  [host EXCEPT !.cmd = cmd, !.failed = {failed}, !.status = {exit_status(failed)}]

\* kevm prove: the claims of a specification file are explored and the
\* command exits with the number of failed proofs
exec_prove(failed) ==
  /\ NotRunning
  /\ host' = Exited("prove", failed)
  /\ UNCHANGED <<contracts, hasSetUp, mdigest, cdigest, digestFile, proofFiles, batch, wk, mem,
                 lastCheck, runs, lastOp>>

\* kevm foundry-prove of the command line: the argument checks, whose
\* ValueError is not caught and ends the interpreter with status 1, then the
\* exploration and the exit with the number of failed proofs
exec_foundry_prove(workers, max_iterations, failed) ==
  /\ NotRunning
  /\ host' = IF invalid_arguments(workers, max_iterations)
             THEN [host EXCEPT !.cmd = "foundry-prove", !.failed = {}, !.status = {1}]
             ELSE Exited("foundry-prove", failed)
  /\ UNCHANGED <<contracts, hasSetUp, mdigest, cdigest, digestFile, proofFiles, batch, wk, mem,
                 lastCheck, runs, lastOp>>

NextExit ==
  \/ \E failed \in 0..MaxFailed : exec_prove(failed)
  \/ \E workers \in 0..1, max_iterations \in -1..MaxIter, failed \in 0..MaxFailed :
       exec_foundry_prove(workers, max_iterations, failed)

SpecExit == Init /\ [][NextExit]_vars

\* ------------------------------------------------------- discovery order
\* the orders in which a glob may yield the files of the contracts cs
GlobOrders(cs) ==
  {seq \in [1..Cardinality(cs) -> cs] : \A i, j \in DOMAIN seq : i # j => seq[i] # seq[j]}

\* the file system yields the contract files in another order from now on
\* (the project is checked out or rebuilt elsewhere)
Discover(order) ==
  /\ NotRunning
  /\ order \in GlobOrders(contracts)
  /\ host' = [host EXCEPT !.glob = order]
  /\ UNCHANGED <<contracts, hasSetUp, mdigest, cdigest, digestFile, proofFiles, batch, wk, mem,
                 lastCheck, runs, lastOp>>

\* foundry_kompile calls on a project of two contracts, the sources edited
\* and the discovery order changed in between, after one initialising
\* foundry_prove call
NextDigest ==
  \/ \E order \in GlobOrders(contracts) : Discover(order)
  \/ \E ok \in BOOLEAN : Kompile(ok)
  \/ Edits
  \/ runs = 0 /\ ProveStart(1, 0, FALSE, all_tests)
  \/ Starts
  \/ Finishes
  \/ PhaseDone

SpecDigest == Init /\ [][NextDigest]_vars

\* ------------------------------------------- foundry_kompile, in its steps
\* contracts.k and foundry.k as _foundry_to_contract_def and
\* _foundry_to_main_def generate them from the contracts of the project
generated_k_files(cs, cd) ==
  LET names == sorted(Foundry_contracts(SelectSeq(host.glob, LAMBDA c : c \in cs)))
  IN <<"contracts.k:" \o join([i \in DOMAIN names |-> cd[names[i]]]),
       "foundry.k:" \o join(names)>>

\* kompilation_digest, with no required K file
kompilation_digest(k_files) == hash_str(hash_str(k_files[1]) \o hash_str(k_files[2]))

\* kompilation_up_to_date
kompilation_up_to_date(digest_file, k_files) ==
  IF digest_file = NoFile THEN FALSE ELSE Content(digest_file) = kompilation_digest(k_files)

\* a foundry_kompile that records the compilation digest before it compiles
update_kompilation_digest_before_kompile(digest_file, k_files, raised) ==
  File(kompilation_digest(k_files))

\* the compilation digest file a run leaves that got as far as the
\* compilation: update_kompilation_digest is reached when nothing raised
update_kompilation_digest(digest_file, k_files, raised) ==
  IF raised = "" THEN File(kompilation_digest(k_files)) ELSE digest_file

\* foundry_kompile(regen, rekompile): fails names the step that raises
\* ("": none; "build": forge build; "regen": a required file or an import
\* is rejected; "kompile": the compiler); a compiler that fails may or may
\* not leave an older timestamp file (stamp)
foundry_kompile(regen, rekompile, fails, stamp) ==
  /\ NotRunning
  /\ LET old == host.kompiled
         up_to_date == Foundry_up_to_date(digestFile, contracts, cdigest)
         checked == Foundry_up_to_date_file(digestFile)
         regen1 == regen \/ ~up_to_date
         regenerate == regen1 \/ old.k_files = {}
         k_files == IF regenerate THEN generated_k_files(contracts, cdigest)
                    ELSE Content(old.k_files)
         kompile == ~kompilation_up_to_date(old.digest, k_files) \/ rekompile \/ ~old.timestamp
         ran(raised, regenerated, kompiled) ==
           [seq |-> IF host.kompile.seq = 1 THEN 2 ELSE 1, regen |-> regen, rekompile |-> rekompile,
            inputs |-> FoundryDigest(contracts, cdigest), raised |-> raised,
            regenerated |-> regenerated, kompiled |-> kompiled]
     IN IF fails = "build"
        THEN /\ host' = [host EXCEPT !.kompile = ran("build", FALSE, FALSE)]
             /\ digestFile' = digestFile
        ELSE IF fails = "regen"
        THEN /\ host' = [host EXCEPT !.kompile = ran("regen", FALSE, FALSE)]
             /\ digestFile' = checked
        ELSE /\ fails = "kompile" => kompile
             /\ host' = [host EXCEPT
                           !.kompile = ran(fails, regenerate, kompile),
                           !.kompiled =
                             [k_files |-> {k_files},
                              digest |-> update_kompilation_digest(old.digest, k_files, fails),
                              timestamp |-> IF fails = "" THEN TRUE ELSE old.timestamp /\ stamp]]
             /\ digestFile' = IF fails = "" THEN Foundry_update_digest(checked, contracts, cdigest)
                              ELSE checked
  /\ UNCHANGED <<contracts, hasSetUp, mdigest, cdigest, proofFiles, batch, wk, mem, lastCheck, runs, lastOp>>

Kompiles ==
  \E regen \in BOOLEAN, rekompile \in BOOLEAN, fails \in {"", "build", "regen", "kompile"},
     stamp \in BOOLEAN : foundry_kompile(regen, rekompile, fails, stamp)

\* foundry_kompile runs on a project of one contract, a foundry_prove call
\* that only initialises and edits of the sources in between
NextBuild ==
  \/ Kompiles
  \/ Edits
  \/ runs = 0 /\ ProveStart(1, 0, FALSE, all_tests)
  \/ StartsQuiet
  \/ Finishes
  \/ PhaseDone

SpecBuild == InitCache /\ [][NextBuild]_vars

\* ------------------------------------------------- setUp and its tests
\* the exploration loop run from iteration i on, the oracle answering
\* script[j] at iteration j: the graph it leaves and the iterations it made
RECURSIVE apr_prove_loop(_, _, _, _)
apr_prove_loop(kcfg, script, i, max_iterations) ==
  IF frontier(kcfg) = {} \/ i > max_iterations THEN [kcfg |-> kcfg, iter |-> i - 1]
  ELSE apr_prove_loop(explore_node(kcfg, next_frontier(kcfg), script[i]), script, i + 1,
                      max_iterations)

\* what the oracle answers over one exploration: every step halts in a
\* state that implies the goal, or in one that does not, or the first step
\* ends at a JUMPI and every later step halts in a state that implies the
\* goal
Scripts(accts) ==
  {[i \in 1..MaxBranchIter |-> CTerm(KHalt, TRUE, "executed", accts)],
   [i \in 1..MaxBranchIter |-> CTerm(KHalt, FALSE, "executed", accts)],
   [i \in 1..MaxBranchIter |-> IF i = 1 THEN CTerm(KJumpi, FALSE, "executed", accts)
                                ELSE CTerm(KHalt, TRUE, "executed", accts)]}

\* the kevm_apr_prove call of unit u from its first iteration to its last,
\* the proof persisted after each iteration
WorkerRun(u, script) ==
  /\ wk[u].st = "running"
  /\ ~loop_ended(u)
  /\ wk[u].iter = 0
  /\ LET proof == Content(mem[u])
         out == apr_prove_loop(proof.kcfg, script, 1, batch.max_iterations)
         proof2 == [proof EXCEPT !.kcfg = out.kcfg]
     IN /\ wk' = [wk EXCEPT ![u].iter = IF frontier(out.kcfg) = {} THEN out.iter
                                          ELSE batch.max_iterations,
                            ![u].oracle = TRUE, ![u].asked = wk[u].port]
        /\ mem' = [mem EXCEPT ![u] = File(proof2)]
        /\ proofFiles' = [proofFiles EXCEPT ![proof_digest(u, mdigest)] = File(proof2)]
  /\ UNCHANGED <<contracts, hasSetUp, mdigest, cdigest, digestFile, batch, lastCheck, runs, lastOp, host>>

Runs ==
  \E u \in AllUnits : \E script \in Scripts(cdigest[contract_name(u)]) : WorkerRun(u, script)

\* foundry_prove calls, with and without reinit, on a project of one
\* contract that has a setUp method, the sources edited in between; every
\* exploration runs up to MaxBranchIter iterations
NextSetUp ==
  \/ \E reinit \in BOOLEAN : ProveStart(1, MaxBranchIter, reinit, all_tests)
  \/ Edits
  \/ StartsQuiet
  \/ Runs
  \/ Finishes
  \/ PhaseDone

SpecSetUp == InitConfig /\ [][NextSetUp]_vars

\* ------------------------------------------------------- matching_tests
\* str.endswith and str.startswith on strings kept as sequences of characters
endswith(str, suffix) ==
  Len(str) >= Len(suffix) /\ SubSeq(str, Len(str) - Len(suffix) + 1, Len(str)) = suffix
startswith(str, prefix) == Len(str) >= Len(prefix) /\ SubSeq(str, 1, Len(prefix)) = prefix

\* str.replace(old, new) for a character old
RECURSIVE replace(_, _, _)
replace(str, old, new) ==
  IF str = <<>> THEN <<>>
  ELSE (IF Head(str) = old THEN new ELSE <<Head(str)>>) \o replace(Tail(str), old, new)

\* _escape_brackets on one pattern
escape_brackets(reg) ==
  LET r1 == replace(reg, "[", <<"\\", "[">>)
      r2 == replace(r1, "]", <<"\\", "]">>)
      r3 == replace(r2, "(", <<"\\", "(">>)
  IN replace(r3, ")", <<"\\", ")">>)

\* the regular expression pattern, read from its character i on, matches
\* string at position j: a backslash makes the next character a literal,
\* `.` matches any character, `$` matches at the end of the string, any
\* other character matches itself
RECURSIVE re_match_at(_, _, _, _)
re_match_at(pattern, i, string, j) ==
  IF i > Len(pattern) THEN TRUE
  ELSE IF pattern[i] = "\\"
       THEN /\ i + 1 <= Len(pattern) /\ j <= Len(string) /\ string[j] = pattern[i + 1]
            /\ re_match_at(pattern, i + 2, string, j + 1)
       ELSE IF pattern[i] = "."
            THEN j <= Len(string) /\ re_match_at(pattern, i + 1, string, j + 1)
            ELSE IF pattern[i] = "$"
                 THEN j = Len(string) + 1 /\ re_match_at(pattern, i + 1, string, j)
                 ELSE /\ j <= Len(string) /\ string[j] = pattern[i]
                      /\ re_match_at(pattern, i + 1, string, j + 1)

\* re.search: the pattern matches somewhere in the string
re_search(pattern, string) == \E j \in 1..(Len(string) + 1) : re_match_at(pattern, 1, string, j)

\* f'{contract.name}.{method.signature}'
Identifier(method) == method.contract \o <<".">> \o method.signature

\* Foundry.found_tests over the methods of the project's contracts
Foundry_all_tests(methods) ==
  {Identifier(m) : m \in {x \in methods : /\ endswith(x.contract, <<"T", "e", "s", "t">>)
                                          /\ startswith(x.name, <<"t", "e", "s", "t">>)}}

\* Foundry.found_non_tests
Foundry_all_non_tests(methods) ==
  {Identifier(m) : m \in methods} \ Foundry_all_tests(methods)

\* a matching_tests that takes no notice of exclude_tests
Foundry_matching_tests_without_exclude(methods, tests, exclude_tests) ==
  LET found_tests == Foundry_all_tests(methods)
      used == IF tests = <<>> THEN SetToSeq(found_tests) ELSE tests
      regs == [i \in DOMAIN used |-> escape_brackets(used[i])]
      unfound == {i \in DOMAIN regs :
                    ~\E test \in found_tests \cup Foundry_all_non_tests(methods) : re_search(regs[i], test)}
      matched == {test \in found_tests : \E i \in DOMAIN regs : re_search(regs[i], test)}
  IN IF unfound # {} THEN [raised |-> "Test identifiers not found", result |-> <<>>]
     ELSE IF matched = {} THEN [raised |-> "No test matched the predicates", result |-> <<>>]
     ELSE [raised |-> "", result |-> SetToSeq(matched)]

\* Foundry.matching_tests: the exception it raises ("" when it returns) and
\* the list it returns
Foundry_matching_tests(methods, tests, exclude_tests) ==
  LET found_tests == Foundry_all_tests(methods)
      found_non_tests == Foundry_all_non_tests(methods)
      used == IF tests = <<>> THEN SetToSeq(found_tests) ELSE tests
      regs == [i \in DOMAIN used |-> escape_brackets(used[i])]
      exclude_regs == [i \in DOMAIN exclude_tests |-> escape_brackets(exclude_tests[i])]
      unfound == {i \in DOMAIN regs :
                          ~\E test \in found_tests \cup found_non_tests : re_search(regs[i], test)}
      matched == {test \in found_tests :
                          /\ \E i \in DOMAIN regs : re_search(regs[i], test)
                          /\ ~\E i \in DOMAIN exclude_regs : re_search(exclude_regs[i], test)}
  IN IF unfound # {} THEN [raised |-> "Test identifiers not found", result |-> <<>>]
     ELSE IF matched = {} THEN [raised |-> "No test matched the predicates", result |-> <<>>]
     ELSE [raised |-> "", result |-> SetToSeq(matched)]

\* the methods a project may declare: two tests of a test contract, one of
\* them with `$` in its name, the setUp method of that contract, and a
\* method named like a test in a contract that is not a test contract
Method(contract, name) == [contract |-> contract, name |-> name, signature |-> name \o <<"(", ")">>]
MethodPool ==
  {Method(<<"A", "T", "e", "s", "t">>, <<"t", "e", "s", "t">>),
   Method(<<"A", "T", "e", "s", "t">>, <<"t", "e", "s", "t", "$">>),
   Method(<<"A", "T", "e", "s", "t">>, <<"s", "e", "t", "U", "p">>),
   Method(<<"L", "i", "b">>, <<"t", "e", "s", "t">>)}

\* the patterns a caller may pass: the full identifier of a test, a
\* substring of the identifiers of tests and of a method that is no test, a
\* substring of the identifier of a method that is no test, and a pattern
\* that matches no identifier
PatternPool ==
  {<<"A", "T", "e", "s", "t", ".", "t", "e", "s", "t", "(", ")">>,
   <<"t", "e", "s", "t">>, <<"s", "e", "t", "U", "p">>, <<"n", "o", "p", "e">>}

ListsOf(S, n) == UNION {[1..k -> S] : k \in 0..n}

\* a matching_tests call about to be made on a Foundry object
MatchingCalls ==
  {[methods |-> methods, tests |-> tests, exclude_tests |-> exclude_tests, called |-> FALSE,
    raised |-> "", result |-> <<>>] :
     methods \in (SUBSET MethodPool) \ {{}}, tests \in ListsOf(PatternPool, MaxPatterns),
     exclude_tests \in ListsOf(PatternPool, MaxExclude)}

InitMatch ==
  /\ contracts = {"ATest"}
  /\ hasSetUp = [c \in Contracts |-> c = "ATest"]
  /\ FreshProject
  /\ \E call \in MatchingCalls : host = [NoHost EXCEPT !.glob = SetToSeq(contracts), !.matching = {call}]

\* the call is made
MatchingTests ==
  /\ \E call \in host.matching :
       /\ ~call.called
       /\ LET out == Foundry_matching_tests(call.methods, call.tests, call.exclude_tests)
          IN host' = [host EXCEPT !.matching =
                        {[call EXCEPT !.called = TRUE, !.raised = out.raised, !.result = out.result]}]
  /\ UNCHANGED <<contracts, hasSetUp, mdigest, cdigest, digestFile, proofFiles, batch, wk, mem,
                 lastCheck, runs, lastOp>>

NextMatch == MatchingTests

SpecMatch == InitMatch /\ [][NextMatch]_vars

\* ------------------------------------------------ states of any K cell
\* the items of the K cells the oracle may answer
KItems == {"#halt", "#execute", "JUMPI", "JUMPI bool2Word", "#pc[JUMPI]"}

\* the K cells: an item by itself, or a sequence of up to MaxCell items
KCells ==
  {KItem(i) : i \in KItems}
    \cup {KSequence(items) : items \in UNION {[1..n -> KItems] : n \in 0..MaxCell}}

\* the operator steps the init node of the persisted proof by hand, and the
\* oracle answers a state of any K cell
StepsToAnyCell ==
  \E u \in all_tests, k \in KCells :
    StepNode(u, 1, CTerm(k, FALSE, "executed", cdigest[contract_name(u)]), 1, FALSE)

\* the workers' steps when no oracle call dies and a step reaches a state
\* that keeps executing
ExploresQuiet ==
  \E u \in AllUnits :
    WorkerExplore(u, CTerm(KInit, FALSE, "executed", cdigest[contract_name(u)]), FALSE)

\* a foundry_prove call that only initialises the proof, a step by hand to a
\* state of any K cell, and a second foundry_prove call that explores it
NextBranch ==
  \/ runs = 0 /\ ProveStart(1, 0, FALSE, all_tests)
  \/ lastOp.seq = 0 /\ StepsToAnyCell
  \/ runs = 1 /\ lastOp.seq = 1 /\ ProveStart(1, MaxIter, FALSE, all_tests)
  \/ StartsQuiet
  \/ ExploresQuiet
  \/ Finishes
  \/ PhaseDone

SpecBranch == InitCache /\ [][NextBranch]_vars

\* ------------------------------------------------------------------ claims
Started(u) == wk[u].st # "none"
Ran(u) == wk[u].st \in {"running", "done"}
SetupOf(t) == <<contract_name(t), SetUpSig>>

\* C1: no test unit is handed to a worker until every setup unit of the batch
\* has finished; a test unit of a contract with a setUp method starts only
\* after that setUp proof has finished with passed = TRUE.
C1_SetupsBeforeTests ==
  \A t \in batch.tests :
    Started(t) =>
      /\ batch.phase = "tests"
      /\ \A s \in batch.setups : wk[s].st = "done"
      /\ hasSetUp[contract_name(t)] =>
            SetupOf(t) \in batch.setups /\ wk[SetupOf(t)].st = "done" /\ wk[SetupOf(t)].passed

\* a test unit of a contract with a setUp method is running on a worker
C1_Witness ==
  \E t \in batch.tests :
    wk[t].st = "running" /\ hasSetUp[contract_name(t)] /\ SetupOf(t) \in batch.setups

\* C2: once the setup unit of a group has ended with passed = FALSE, no test
\* unit depending on it is handed to a worker and no oracle call is made for
\* it: the batch never reaches its test phase.
C2_FailedSetupBlocksTests ==
  [][\A s \in batch.setups :
       (wk[s].st = "done" /\ ~wk[s].passed) =>
         /\ batch'.phase \in {"setup", "raised"}
         /\ \A t \in batch.tests :
              contract_name(t) = contract_name(s) => ~Started(t) /\ wk'[t].st = "none" /\ ~wk'[t].oracle]_vars

\* a setup unit has failed while a test of its contract was requested
C2_Witness ==
  \E s \in batch.setups :
    /\ wk[s].st = "done" /\ ~wk[s].passed
    /\ \E t \in batch.tests : contract_name(t) = contract_name(s)

\* C3: an exception or oracle crash raised while a worker initialises or
\* explores a unit is caught at the worker boundary: no worker lets it out,
\* and foundry_prove does not end with it.
C3_CaughtAtWorkerBoundary ==
  /\ \A u \in AllUnits : wk[u].st # "raised"
  /\ batch.exc # "worker"

\* C4: when the setup units have ended, one of them failed, and a requested
\* test belongs to a group whose setup did not fail (or that has none), the
\* batch goes on to its test phase.
C4_OtherGroupsStillRun ==
  [][LET failed == {s \in batch.setups : wk[s].st = "done" /\ ~wk[s].passed}
     IN (/\ batch.phase = "setup" /\ batch'.phase # "setup"
         /\ \A s \in batch.setups : wk[s].st = "done"
         /\ failed # {}
         /\ \E t \in batch.tests : SetupOf(t) \notin failed)
        => batch'.phase = "tests"]_vars

\* C5: a foundry_prove call that has ended has returned a mapping whose keys
\* are exactly the requested tests.
C5_OneEntryPerTest ==
  (runs >= 1 /\ NotRunning) =>
    /\ batch.phase = "returned"
    /\ {r[1] : r \in batch.results} = batch.tests
    /\ Cardinality(batch.results) = Cardinality(batch.tests)

\* the ledger records the current digest of unit u
Recorded(u) ==
  /\ digestFile # NoFile
  /\ Content(digestFile).methods[u] # {}
  /\ Content(Content(digestFile).methods[u]).method = mdigest[u]

\* C7: while a batch runs, the ledger records the current digest of a unit
\* only if the unit's exploration in this run has ended with passed = TRUE.
C7_LedgerAfterSuccess ==
  \A u \in batch.tests \cup batch.setups :
    (batch.phase \in {"setup", "tests"} /\ Recorded(u)) => wk[u].st = "done" /\ wk[u].passed

\* a graph of exactly the init and the target template node, no relation
IsTemplateGraph(kcfg) ==
  /\ Len(kcfg.nodes) = 2
  /\ kcfg.init = {1} /\ kcfg.target = {2}
  /\ kcfg.nodes[1].k = KInit /\ kcfg.nodes[2].k = KHalt
  /\ kcfg.edges = {} /\ kcfg.splits = {} /\ kcfg.covers = {} /\ kcfg.expanded = {}

\* foundry_prove has just been called
ProveStarted == NotRunning /\ batch'.phase = "setup"

\* a worker has just initialised the proof of unit u
Initialised(u) == wk[u].st = "none" /\ wk'[u].st = "running"

\* C6: a method is out of date exactly when the ledger does not record its
\* current digest or reinit was requested; _method_to_apr_proof returns the
\* persisted proof iff one exists under the proof identifier and the method
\* is not out of date; otherwise it builds, and persists in place of any
\* earlier proof, a fresh proof of the init and target template nodes only.
C6_LoadOrInit ==
  [][/\ ProveStarted =>
          batch'.out_of_date =
            {m \in batch'.tests \cup batch'.setups : ~Recorded(m) \/ batch'.reinit}
     /\ \A u \in AllUnits :
          Initialised(u) =>
            LET pd == proof_digest(u, mdigest)
                persisted == proofFiles[pd]
            IN /\ wk'[u].loaded <=> (persisted # NoFile /\ u \notin batch.out_of_date)
               /\ wk'[u].loaded => (mem'[u] = persisted /\ proofFiles'[pd] = persisted)
               /\ ~wk'[u].loaded =>
                    (IsTemplateGraph(Content(mem'[u]).kcfg) /\ proofFiles'[pd] = mem'[u])]_vars

\* a worker runs on a proof it has loaded from the persisted file
C6_Witness == \E u \in AllUnits : wk[u].st = "running" /\ wk[u].loaded /\ ~batch.reinit

\* the ledger records the current digest of the contract of unit u
ContractRecorded(u) ==
  /\ digestFile # NoFile
  /\ Content(digestFile).methods[u] # {}
  /\ Content(Content(digestFile).methods[u]).contract = cdigest[contract_name(u)]

\* C8 (as the code has it): foundry_prove warns about exactly the methods
\* whose own digest is recorded while their contract's digest is not, reinit
\* not requested; such a method is not out of date, and its persisted proof,
\* when there is one, is loaded and kept: it is not reinitialised.
C8_WarnedAndReused ==
  [][/\ ProveStarted =>
          /\ batch'.warned =
               {m \in batch'.tests \cup batch'.setups :
                  Recorded(m) /\ ~ContractRecorded(m) /\ ~batch'.reinit}
          /\ batch'.warned \cap batch'.out_of_date = {}
     /\ \A u \in batch.warned :
          (Initialised(u) /\ proofFiles[proof_digest(u, mdigest)] # NoFile) =>
            /\ wk'[u].loaded
            /\ mem'[u] = proofFiles[proof_digest(u, mdigest)]
            /\ proofFiles' = proofFiles]_vars

\* a worker runs on the loaded proof of a method foundry_prove warned about
C8_Witness == \E u \in batch.warned : wk[u].st = "running" /\ wk[u].loaded

\* C8 (as stated): the proof of a method foundry_prove warned about is
\* reinitialised, the persisted proof not reused.
C8_WarnedIsReinitialised == \A u \in batch.warned : Ran(u) => ~wk[u].loaded

Prefix(a, b) == Len(a) <= Len(b) /\ \A i \in DOMAIN a : a[i] = b[i]

\* graph g keeps every node and relation of g0, and its init and target
Extends(g0, g) ==
  /\ Prefix(g0.nodes, g.nodes)
  /\ g0.edges \subseteq g.edges /\ g0.splits \subseteq g.splits /\ g0.covers \subseteq g.covers
  /\ g.init = g0.init /\ g.target = g0.target

\* C9 (as the code has it): a unit that is not out of date and has a
\* persisted proof gets that proof loaded, with no oracle call and the file
\* untouched; exploration then resumes from it, keeping every node and
\* relation, init and target; when the loaded proof has no frontier node, or
\* max_iterations is 0, no oracle call is made and the graph stays identical.
C9_ReuseResumes ==
  /\ [](\A u \in AllUnits :
          (Ran(u) /\ wk[u].loaded) =>
            LET g0 == Content(wk[u].start).kcfg
                g == Content(proofFiles[proof_digest(u, mdigest)]).kcfg
            IN /\ Extends(g0, g)
               /\ (frontier(g0) = {} \/ batch.max_iterations = 0) => (~wk[u].oracle /\ g = g0))
  /\ [][\A u \in AllUnits :
          (/\ Initialised(u) /\ u \notin batch.out_of_date
           /\ proofFiles[proof_digest(u, mdigest)] # NoFile) =>
            /\ wk'[u].loaded /\ ~wk'[u].oracle
            /\ wk'[u].start = proofFiles[proof_digest(u, mdigest)]
            /\ mem'[u] = proofFiles[proof_digest(u, mdigest)]
            /\ proofFiles' = proofFiles]_vars

\* the sources are what they were when the project was built
Unedited == mdigest = [u \in AllUnits |-> "d1"] /\ cdigest = [c \in Contracts |-> "d1"]

\* a second run on unedited sources has resumed a loaded proof and called
\* the oracle for it
C9_Witness ==
  \E u \in AllUnits :
    Ran(u) /\ wk[u].loaded /\ wk[u].oracle /\ ~batch.reinit /\ runs = 2 /\ Unedited

\* C9 (as stated): in a run on unedited sources without reinit, no oracle
\* call is made for a loaded proof, and the persisted graph stays what the
\* earlier run left.
C9_ReuseUnchanged ==
  \A u \in AllUnits :
    (Ran(u) /\ wk[u].loaded /\ ~batch.reinit /\ Unedited) =>
      /\ ~wk[u].oracle
      /\ proofFiles[proof_digest(u, mdigest)] = wk[u].start

\* C10: Foundry.up_to_date returns TRUE exactly when the ledger file exists,
\* records a project digest, and that digest equals the freshly computed
\* one; foundry_prove, reinit not requested, takes a method for up to date
\* exactly when the ledger file exists, has an entry for the method, and the
\* entry's digest equals the method's current digest.
C10_UpToDateCheck ==
  /\ [](lastCheck.seen # "none" =>
          (lastCheck.result <=>
             (lastCheck.seen = "recorded" /\ lastCheck.recorded = lastCheck.fresh)))
  /\ [][(ProveStarted /\ ~batch'.reinit) =>
          \A m \in batch'.tests \cup batch'.setups :
            m \notin batch'.out_of_date
              <=> /\ digestFile # NoFile
                  /\ Content(digestFile).methods[m] # {}
                  /\ Content(Content(digestFile).methods[m]).method = mdigest[m]]_vars

\* Foundry.up_to_date has found the recorded project digest equal to the
\* freshly computed one
C10_Witness == lastCheck.seen = "recorded" /\ lastCheck.result

\* C11: a crash at any instant while a proof is being persisted never leaves
\* a partially written file: whenever no write is in progress, the proof
\* file is absent or holds a complete version of the proof.
C11_CrashLeavesCompleteFile ==
  \A u \in AllUnits :
    wk[u].st # "writing" => proofFiles[proof_digest(u, mdigest)] # File(Truncated)

\* the last step was operator command cmd, and it did not raise
Done(cmd) == lastOp'.seq = lastOp.seq + 1 /\ lastOp'.cmd = cmd /\ ~lastOp'.raised

\* the graph persisted for unit u
Graph(u) == Content(proofFiles[proof_digest(u, mdigest)]).kcfg

\* the nodes that can be reached from the init node, covers followed,
\* along a path that avoids node n
ReachableAvoiding(kcfg, n) ==
  UNION {reachable_nodes(remove_node(kcfg, n), i, TRUE) : i \in kcfg.init \ {n}}

\* C12: foundry_remove_node(n), n not the target, removes n and exactly the
\* nodes that are reachable only through n: a node that can also be reached
\* from the init node along a path avoiding n is kept, and so is the target.
C12_RemovesOnlyThroughNode ==
  [][\A u \in AllUnits :
       (Done("remove_node") /\ proofFiles[proof_digest(u, mdigest)] # NoFile
          /\ ~is_target(Graph(u), lastOp'.node)) =>
         LET n == lastOp'.node
             kept == NodeIds(Graph(u)')
         IN /\ n \notin kept
            /\ \A x \in NodeIds(Graph(u)) \ {n} :
                 x \in kept <=> \/ is_target(Graph(u), x)
                               \/ x \notin reachable_nodes(Graph(u), n, TRUE)
                               \/ x \in ReachableAvoiding(Graph(u), n)]_vars

\* C13: foundry_remove_node on the target node fails with an error, and the
\* persisted proof is left as it was.
C13_RemoveTargetFails ==
  /\ [](\A u \in AllUnits :
          (lastOp.cmd = "remove_node" /\ proofFiles[proof_digest(u, mdigest)] # NoFile
             /\ is_target(Graph(u), lastOp.node)) => lastOp.raised)
  /\ [][lastOp'.raised => proofFiles' = proofFiles]_vars

\* every endpoint of every edge, split and cover of the graph is a node of it
NoDangling(kcfg) ==
  /\ \A e \in kcfg.edges : e[1] \in NodeIds(kcfg) /\ e[2] \in NodeIds(kcfg)
  /\ \A c \in kcfg.covers : c[1] \in NodeIds(kcfg) /\ c[2] \in NodeIds(kcfg)
  /\ \A sp \in kcfg.splits : sp[1] \in NodeIds(kcfg) /\ sp[2] \subseteq NodeIds(kcfg)

\* C14: after foundry_remove_node and after every other graph operation
\* (exploration, step-node, simplify-node with replace, section-edge,
\* reload), every endpoint of every edge, split and cover of a proof graph,
\* persisted or held by a worker, is an existing node.
C14_NoDanglingRelation ==
  /\ \A pd \in ProofDigests : proofFiles[pd] # NoFile => NoDangling(Content(proofFiles[pd]).kcfg)
  /\ \A u \in AllUnits : mem[u] # {} => NoDangling(Content(mem[u]).kcfg)

\* foundry_remove_node has removed a node of a graph that keeps an edge
C14_Witness ==
  \E u \in all_tests :
    /\ lastOp.cmd = "remove_node" /\ ~lastOp.raised
    /\ proofFiles[proof_digest(u, mdigest)] # NoFile
    /\ lastOp.node \notin NodeIds(Graph(u))
    /\ Graph(u).edges # {}

\* C15: after any sequence of proof operations (initialisation, exploration,
\* step-node, simplify-node, section-edge, remove-node on any node, persist
\* and reload) a proof graph has exactly one init node and exactly one
\* target node.
C15_OneInitOneTarget ==
  \A pd \in ProofDigests :
    proofFiles[pd] # NoFile =>
      LET kcfg == Content(proofFiles[pd]).kcfg
      IN /\ Cardinality(kcfg.init \cap NodeIds(kcfg)) = 1
         /\ Cardinality(kcfg.target \cap NodeIds(kcfg)) = 1

Reloaded(proof) == load_proof(proof_dict(proof))

\* the two proofs have the same nodes with the same states, the same edges,
\* splits and covers, the same init and target, and the same type tag
SameProof(p, q) ==
  /\ NodeIds(q.kcfg) = NodeIds(p.kcfg)
  /\ \A i \in NodeIds(p.kcfg) : q.kcfg.nodes[i] = p.kcfg.nodes[i]
  /\ q.kcfg.edges = p.kcfg.edges
  /\ q.kcfg.splits = p.kcfg.splits
  /\ q.kcfg.covers = p.kcfg.covers
  /\ q.kcfg.init = p.kcfg.init /\ q.kcfg.target = p.kcfg.target
  /\ q.type = p.type /\ q.id = p.id

C18_StatusOfProof ==
  \A u \in all_tests :
    proofFiles[proof_digest(u, mdigest)] # NoFile =>
      /\ frontier(Graph(u)) \cap stuck(Graph(u)) = {}
      /\ lastOp.cmd = "list" =>
            /\ lastOp.out \in {"passed", "pending", "failed"}
            /\ lastOp.out = "passed" <=> (stuck(Graph(u)) = {} /\ frontier(Graph(u)) = {})
            /\ lastOp.out = "pending" <=> (stuck(Graph(u)) = {} /\ frontier(Graph(u)) # {})
            /\ lastOp.out = "failed" <=> stuck(Graph(u)) # {}

\* a proof with a stuck node and no frontier node has been listed
C18_Witness ==
  \E u \in all_tests :
    /\ proofFiles[proof_digest(u, mdigest)] # NoFile
    /\ lastOp.cmd = "list" /\ lastOp.out = "failed"
    /\ stuck(Graph(u)) # {} /\ frontier(Graph(u)) = {}

\* C19: in every proof graph a node that has an outgoing cover has no
\* outgoing edge and no outgoing split: neither exploration nor
\* foundry_step_node, on any existing node, adds an edge or a split out of a
\* covered node.
C19_CoverIsTerminal ==
  \A pd \in ProofDigests :
    proofFiles[pd] # NoFile =>
      LET kcfg == Content(proofFiles[pd]).kcfg
      IN \A n \in NodeIds(kcfg) : is_covered(kcfg, n) => is_leaf(kcfg, n)

\* the graph of a unit without branches after a single step from the init
\* node has reached a halted state that implies the goal
SingleStepToGoal(kcfg) ==
  /\ NodeIds(kcfg) = {1, 2, 3} /\ Len(kcfg.nodes) = 3
  /\ kcfg.init = {1} /\ kcfg.target = {2}
  /\ kcfg.edges = {<<1, 3, 1>>} /\ kcfg.splits = {}
  /\ kcfg.nodes[3].k = KHalt /\ kcfg.nodes[3].ok

\* C20: for a unit with no branches whose single step from the init node
\* reaches a state that is terminal and implies the goal, exploration ends
\* with exactly one cover into the target, no frontier node and no stuck
\* node, and the unit is classified proved (passed = TRUE).
C20_SingleStepProved ==
  \A u \in AllUnits :
    (wk[u].st = "done" /\ mem[u] # {} /\ SingleStepToGoal(Content(mem[u]).kcfg)) =>
      LET kcfg == Content(mem[u]).kcfg
      IN /\ kcfg.covers = {<<3, 2>>}
         /\ covers_into(kcfg, get_unique_target(kcfg)) = {<<3, 2>>}
         /\ frontier(kcfg) = {} /\ stuck(kcfg) = {}
         /\ wk[u].passed
         /\ proofFiles[proof_digest(u, mdigest)] = mem[u]

\* the exploration of such a unit has ended and the unit has passed
C20_Witness ==
  \E u \in all_tests :
    /\ wk[u].st = "done" /\ mem[u] # {} /\ ~wk[u].loaded
    /\ SingleStepToGoal(Content(mem[u]).kcfg)
    /\ wk[u].passed

\* the graph of a unit without branches after a single step from the init
\* node has reached a halted state that does not imply the goal
SingleStepToFailure(kcfg) ==
  /\ NodeIds(kcfg) = {1, 2, 3} /\ Len(kcfg.nodes) = 3
  /\ kcfg.init = {1} /\ kcfg.target = {2}
  /\ kcfg.edges = {<<1, 3, 1>>} /\ kcfg.splits = {}
  /\ kcfg.nodes[3].k = KHalt /\ ~kcfg.nodes[3].ok

\* C21: for a unit whose only execution path reaches a terminal state that
\* does not imply the goal, exploration leaves that node without a cover,
\* the proof has exactly one stuck node, and the unit is classified failed
\* (passed = FALSE).
C21_SingleStepFailed ==
  \A u \in AllUnits :
    (wk[u].st = "done" /\ mem[u] # {} /\ SingleStepToFailure(Content(mem[u]).kcfg)) =>
      LET kcfg == Content(mem[u]).kcfg
      IN /\ kcfg.covers = {}
         /\ stuck(kcfg) = {3}
         /\ frontier(kcfg) = {}
         /\ ~wk[u].passed
         /\ proven(kcfg) = "failed"
         /\ proofFiles[proof_digest(u, mdigest)] = mem[u]

\* the exploration of such a unit has ended and the unit has failed
C21_Witness ==
  \E u \in all_tests :
    /\ wk[u].st = "done" /\ mem[u] # {} /\ ~wk[u].loaded
    /\ SingleStepToFailure(Content(mem[u]).kcfg)
    /\ stuck(Content(mem[u]).kcfg) = {3}
    /\ ~wk[u].passed

ProveCalled == NotRunning /\ batch' # batch

\* the methods of the project's contracts
DiscoveredMethods == {m \in Methods(hasSetUp) : contract_name(m) \in contracts}

\* the step leaves the ledger, the proof files and the workers alone, and no
\* worker has started
NothingRun ==
  /\ digestFile' = digestFile /\ proofFiles' = proofFiles
  /\ wk' = wk /\ mem' = mem
  /\ \A u \in AllUnits : wk'[u].st = "none" /\ ~wk'[u].oracle

C24_BadArgumentsRejected ==
  [][(ProveCalled /\ (batch'.workers <= 0 \/ batch'.max_iterations < 0)) =>
       (batch'.phase = "raised" /\ host' = host /\ NothingRun)]_vars

\* a first call with no worker was rejected and the apr_proofs directory
\* does not exist
C24_Witness ==
  /\ batch.phase = "raised" /\ batch.exc = "ValueError: arguments"
  /\ batch.workers = 0 /\ batch.max_iterations >= 0
  /\ ~host.apr_proofs /\ digestFile = NoFile

\* C25: a foundry_prove call with a negative max_depth is rejected before
\* any worker starts.
C25_NegativeDepthRejected ==
  batch.max_depth < 0 => (batch.phase = "raised" /\ \A u \in AllUnits : wk[u].st = "none")

\* C26: exec_prove and exec_foundry_prove end with exit status 0 exactly when
\* the number of failed units is 0.
C26_ExitZeroIffNoFailure ==
  \A failed \in host.failed, status \in host.status : (status = 0) <=> (failed = 0)

\* C27: at most `workers` units are in flight at every instant, in the setup
\* phase and in the test phase alike, and the two phases never overlap: the
\* units in flight all belong to the group of the current phase, no test unit
\* has started while the setup phase lasts, and every setup unit has ended
\* when the test phase runs.
C27_AtMostWorkersInFlight ==
  /\ Cardinality(InFlight) <= batch.workers
  /\ InFlight \subseteq Group
  /\ batch.phase = "setup" => \A t \in batch.tests : wk[t].st = "none"
  /\ batch.phase = "tests" => \A s \in batch.setups : wk[s].st \in {"done", "raised"}

\* every worker of the pool is busy in the test phase and a unit of the
\* group is waiting for a free worker
C27_Witness ==
  /\ batch.phase = "tests" /\ batch.setups # {}
  /\ Cardinality(InFlight) = batch.workers
  /\ \E u \in Group : wk[u].st = "none"

init_problems == SetToSeq(Group)

\* C29: within one batch no two workers write the same unit's proof file at
\* the same time: the list handed to the pool has no duplicates, no unit is
\* in both phases, units in flight have different proof files, a proof file
\* is written only by a step of the worker of its own unit, and no setup
\* proof file is written while a test unit is in flight.
C29_OneWriterPerProofFile ==
  /\ [](/\ batch.tests \cap batch.setups = {}
        /\ \A i \in DOMAIN init_problems : \A j \in DOMAIN init_problems :
             i # j => init_problems[i] # init_problems[j]
        /\ \A u \in InFlight : \A v \in InFlight \ {u} :
             proof_digest(u, mdigest) # proof_digest(v, mdigest))
  /\ [][\A pd \in ProofDigests :
          proofFiles'[pd] # proofFiles[pd] =>
            /\ \E u \in Group :
                 /\ pd = proof_digest(u, mdigest)
                 /\ wk'[u] # wk[u] /\ wk'[u].st = "running"
                 /\ \A v \in AllUnits \ {u} : wk'[v] = wk[v]
            /\ (\E t \in batch.tests : wk[t].st = "running" \/ wk'[t].st = "running") =>
                 \A s \in batch.setups : pd # proof_digest(s, mdigest)]_vars

\* two test units of contracts with a setUp method are in flight and have
\* written their proof files, next to the proof files of the setup units
C29_Witness ==
  /\ batch.phase = "tests" /\ Cardinality(batch.setups) = 2
  /\ \A s \in batch.setups : proofFiles[proof_digest(s, mdigest)] # NoFile
  /\ Cardinality(InFlight) = 2
  /\ \A t \in InFlight : wk[t].iter > 0 /\ proofFiles[proof_digest(t, mdigest)] = mem[t]

\* C30: digest computation is deterministic and stable: Foundry.digest and
\* proof_digest computed again on unchanged contracts give the same value,
\* whatever the order in which the contract files are discovered, and a
\* change of the digest of one contract of the project changes Foundry.digest.
C30_DigestStable ==
  /\ [](\A order \in GlobOrders(contracts) :
          Foundry_digest(order, cdigest) = FoundryDigest(contracts, cdigest))
  /\ [][/\ (\E c \in contracts : cdigest'[c] # cdigest[c]) =>
             Foundry_digest(host'.glob, cdigest') # Foundry_digest(host.glob, cdigest)
        /\ (\A c \in contracts : cdigest'[c] = cdigest[c]) =>
             Foundry_digest(host'.glob, cdigest') = Foundry_digest(host.glob, cdigest)
        /\ \A u \in AllUnits :
             mdigest'[u] = mdigest[u] <=> proof_digest(u, mdigest)' = proof_digest(u, mdigest)]_vars

\* the digest of the project was computed, then the file system came to
\* yield the contract files in the other order, and the digest computed now
\* is the one computed before
C30_Witness ==
  /\ lastCheck.seen # "none"
  /\ host.glob = <<"BTest", "ATest">>
  /\ lastCheck.fresh = FoundryDigest(contracts, cdigest)
  /\ cdigest["ATest"] # cdigest["BTest"]

\* the values the variables of a branch condition may take
Valuations == [B : BOOLEAN, COND : 0..2]

\* whether a branch condition holds under a valuation
Holds(cond, val) ==
  LET atom == IF cond.atom = "B" THEN val.B ELSE val.COND = 0
  IN IF cond.neg THEN ~atom ELSE atom

\* the K cell is a pending JUMPI followed by #pc[JUMPI], #execute and a
\* continuation
JumpiPending(k) ==
  /\ k.type = "KSequence" /\ Len(k.items) >= 4
  /\ k.items[1] \in {"JUMPI", "JUMPI bool2Word"}
  /\ k.items[2] = "#pc[JUMPI]" /\ k.items[3] = "#execute"

\* the states of the persisted proof graphs
PersistedStates ==
  UNION {{Content(proofFiles[pd]).kcfg.nodes[n] : n \in NodeIds(Content(proofFiles[pd]).kcfg)} :
           pd \in {x \in ProofDigests : proofFiles[x] # NoFile}}

HaltNotResumed(k) ==
  /\ Len(k.items) >= 1 /\ k.items[1] = "#halt"
  /\ Len(k.items) > 1 => k.items[2] # "#execute"

\* C37: is_terminal is true of a state exactly when the first item of its K
\* cell is #halt and the item that follows it, if any, is not #execute.
C37_TerminalIffHalt ==
  \A cterm \in PersistedStates : is_terminal(cterm) <=> HaltNotResumed(cterm.k)

\* the step ran operator command cmd to its end, raised or not
Commanded(cmd) == lastOp'.seq = lastOp.seq + 1 /\ lastOp'.cmd = cmd

\* the step changed no proof file but that of unit u
OnlyFileOf(u) ==
  \A pd \in ProofDigests : pd # proof_digest(u, mdigest) => proofFiles'[pd] = proofFiles[pd]

\* C34: foundry_step_node with repeat = n steps n times, each step from the
\* node the step before it returned, and persists after every step: when
\* step k fails, the proof file holds exactly the nodes and edges of the
\* first k - 1 steps (of all n steps when none fails), chained from the
\* named node, and nothing else of the graph has changed.
C34_StepsPersistedOneByOne ==
  [][Commanded("step_node") =>
       /\ lastOp'.raised <=> lastOp'.returned < lastOp'.repeat
       /\ lastOp'.returned = 0 => proofFiles' = proofFiles
       /\ lastOp'.returned > 0 =>
            \E u \in all_tests :
              /\ proofFiles[proof_digest(u, mdigest)] # NoFile
              /\ OnlyFileOf(u)
              /\ LET old == Graph(u)
                     new == Graph(u)'
                     n == Len(old.nodes)
                     k == lastOp'.returned
                     source(i) == IF i = 1 THEN lastOp'.node ELSE n + i - 1
                 IN /\ lastOp'.node \in NodeIds(old)
                    /\ Len(new.nodes) = n + k
                    /\ \A i \in 1..n : new.nodes[i] = old.nodes[i]
                    /\ \A i \in 1..k : new.nodes[n + i] # Removed
                    /\ \E depth \in 1..2 :
                         new.edges = old.edges \cup {<<source(i), n + i, depth>> : i \in 1..k}
                    /\ new.covers = old.covers /\ new.splits = old.splits
                    /\ new.init = old.init /\ new.target = old.target
                    /\ new.expanded = old.expanded]_vars

\* the second of two steps failed, and the first one is in the proof file
C34_Witness ==
  \E u \in all_tests :
    /\ lastOp.cmd = "step_node" /\ lastOp.raised
    /\ lastOp.repeat = 2 /\ lastOp.returned = 1
    /\ proofFiles[proof_digest(u, mdigest)] # NoFile
    /\ <<lastOp.node, Len(Graph(u).nodes), 1>> \in Graph(u).edges

\* C35: foundry_simplify_node without replace leaves the persisted proof as
\* it was; with replace it changes the state of the named node and nothing
\* else of the graph, and persists the graph.
C35_SimplifyChangesOneState ==
  [][Commanded("simplify_node") =>
       /\ ~lastOp'.replace => proofFiles' = proofFiles
       /\ (lastOp'.replace /\ ~lastOp'.raised) =>
            \E u \in all_tests :
              /\ proofFiles[proof_digest(u, mdigest)] # NoFile
              /\ OnlyFileOf(u)
              /\ LET old == Graph(u)
                     new == Graph(u)'
                     id == lastOp'.node
                 IN /\ id \in NodeIds(old)
                    /\ new = [old EXCEPT !.nodes[id] = new.nodes[id]]
                    /\ new.nodes[id] = [old.nodes[id] EXCEPT !.form = "simplified"]
              /\ Content(proofFiles[proof_digest(u, mdigest)])' =
                   [Content(proofFiles[proof_digest(u, mdigest)]) EXCEPT !.kcfg = Graph(u)']]_vars

\* simplify-node with replace has put the simplified state of a node in the
\* proof file, next to a node whose state is not simplified
C35_Witness ==
  \E u \in all_tests :
    /\ lastOp.cmd = "simplify_node" /\ lastOp.replace /\ ~lastOp.raised
    /\ proofFiles[proof_digest(u, mdigest)] # NoFile
    /\ Graph(u).nodes[lastOp.node].form = "simplified"
    /\ \E i \in NodeIds(Graph(u)) : Graph(u).nodes[i].form # "simplified"

\* C36: foundry_remove_node with a node identifier that the graph does not
\* have fails: it raises, removes nothing and leaves the proof file as it
\* was.
C36_RemoveUnknownNodeFails ==
  [][(/\ Commanded("remove_node")
      /\ \A u \in all_tests :
           /\ proofFiles[proof_digest(u, mdigest)] # NoFile
           /\ lastOp'.node \notin NodeIds(Graph(u))) =>
       lastOp'.raised /\ proofFiles' = proofFiles]_vars

\* remove-node was called with an identifier that the graph of three nodes
\* does not have, and raised
C36_Witness ==
  \E u \in all_tests :
    /\ lastOp.cmd = "remove_node" /\ lastOp.raised
    /\ proofFiles[proof_digest(u, mdigest)] # NoFile
    /\ Cardinality(NodeIds(Graph(u))) = 3
    /\ lastOp.node \notin NodeIds(Graph(u))

\* the pattern matches the identifier: re.search of the pattern, its
\* brackets escaped, finds a match in it
Matches(pattern, identifier) == re_search(escape_brackets(pattern), identifier)

KompileRan == host'.kompile.seq # host.kompile.seq

\* the 'foundry' entry of the ledger file
FoundryEntry(file) == IF file = NoFile THEN NoKey ELSE Content(file).foundry

\* no step but a foundry_kompile run touches the compilation digest or the
\* 'foundry' entry
C39_OnlyKompileUpdates ==
  ~KompileRan =>
    /\ host'.kompiled.digest = host.kompiled.digest
    /\ FoundryEntry(digestFile') = FoundryEntry(digestFile)

\* the run that follows a run whose compilation failed, with the same
\* arguments and unchanged inputs, compiles again if it gets that far
C39_CompilesAgain ==
  (/\ KompileRan /\ host.kompile.raised = "kompile"
   /\ host'.kompile.inputs = host.kompile.inputs
   /\ host'.kompile.regen = host.kompile.regen
   /\ host'.kompile.rekompile = host.kompile.rekompile
   /\ host'.kompile.raised \in {"", "kompile"}) => host'.kompile.kompiled

\* the run that follows a successful run, with unchanged inputs and neither
\* regen nor rekompile, neither regenerates nor compiles
C39_NoSecondCompilation ==
  (/\ KompileRan /\ host.kompile.seq # 0 /\ host.kompile.raised = ""
   /\ host'.kompile.inputs = host.kompile.inputs
   /\ ~host'.kompile.regen /\ ~host'.kompile.rekompile) =>
    ~host'.kompile.kompiled /\ ~host'.kompile.regenerated

\* C39 as stated: the compilation digest and the 'foundry' digest are
\* updated only by a foundry_kompile run that finished without error; a
\* failing run leaves both digest files as they were, so that the next run
\* compiles again; a run right after a successful one, with unchanged inputs
\* and without regen or rekompile, does not compile again.
C39_FailingRunLeavesDigestFiles ==
  [][/\ C39_OnlyKompileUpdates
     /\ (KompileRan /\ host'.kompile.raised # "") =>
          host'.kompiled.digest = host.kompiled.digest /\ digestFile' = digestFile
     /\ C39_CompilesAgain
     /\ C39_NoSecondCompilation]_vars

\* C39, amended: a failing run leaves the compilation digest file as it
\* was and every entry of the ledger file as it was, except that a ledger
\* without a 'foundry' entry gets the empty string for it, which is the
\* digest of no project; the rest as stated.
C39_FailingRunRecordsNoDigest ==
  [][/\ C39_OnlyKompileUpdates
     /\ (KompileRan /\ host'.kompile.raised # "") =>
          /\ host'.kompiled.digest = host.kompiled.digest
          /\ \/ digestFile' = digestFile
             \/ /\ digestFile # NoFile /\ Content(digestFile).foundry = NoKey
                /\ digestFile' = File([Content(digestFile) EXCEPT !.foundry = ""])
          /\ ~Foundry_up_to_date(digestFile, contracts, cdigest)
               => ~Foundry_up_to_date(digestFile', contracts', cdigest')
     /\ C39_CompilesAgain
     /\ C39_NoSecondCompilation]_vars

\* a run whose compilation failed has regenerated the K files and has left
\* no compilation digest, and the ledger that had no 'foundry' entry has the
\* empty string for it
C39_Witness ==
  /\ host.kompile.raised = "kompile" /\ host.kompile.regenerated
  /\ host.kompiled.digest = NoFile
  /\ digestFile # NoFile /\ Content(digestFile).foundry = ""

\* the per-unit entries of the ledger file
UnitEntries(file) == IF file = NoFile THEN EmptyDict.methods ELSE Content(file).methods

\* C40: Foundry.up_to_date and Foundry.update_digest change or drop no
\* entry of the ledger but 'foundry': every per-unit digest keeps its value
\* (across the two calls alone, and across a foundry_kompile run, which
\* makes them); and up_to_date does not turn a ledger that is out of date
\* into one that it reports up to date.
C40_UnitEntriesKept ==
  /\ [](/\ UnitEntries(Foundry_up_to_date_file(digestFile)) = UnitEntries(digestFile)
        /\ UnitEntries(Foundry_update_digest(digestFile, contracts, cdigest)) = UnitEntries(digestFile)
        /\ (digestFile = NoFile) = (Foundry_up_to_date_file(digestFile) = NoFile)
        /\ ~Foundry_up_to_date(digestFile, contracts, cdigest) =>
             ~Foundry_up_to_date(Foundry_up_to_date_file(digestFile), contracts, cdigest))
  /\ [][KompileRan =>
          /\ UnitEntries(digestFile') = UnitEntries(digestFile)
          /\ digestFile # NoFile => digestFile' # NoFile
          /\ (host'.kompile.raised # "" /\ ~Foundry_up_to_date(digestFile, contracts, cdigest)) =>
               ~Foundry_up_to_date(digestFile', contracts', cdigest')]_vars

\* a foundry_kompile run has recorded the project digest in a ledger that
\* holds the digest of a test
C40_Witness ==
  /\ host.kompile.seq # 0 /\ host.kompile.raised = ""
  /\ digestFile # NoFile
  /\ \E u \in all_tests : Content(digestFile).methods[u] # {}
  /\ Foundry_up_to_date(digestFile, contracts, cdigest)

\* the setUp unit of the contract of unit u, and its proof file
SetUpOf(u) == <<contract_name(u), SetUpSig>>
SetUpFile(u) == proofFiles[proof_digest(SetUpOf(u), mdigest)]

\* the accounts of the init node of the proof in a file
InitAccts(file) ==
  LET kcfg == Content(file).kcfg IN kcfg.nodes[get_unique_init(kcfg)].accts

\* the accounts of the nodes covered into the target of the proof in a file
FinalAccts(file) ==
  IF file = NoFile THEN {}
  ELSE LET kcfg == Content(file).kcfg
       IN {kcfg.nodes[c[1]].accts : c \in covers_into(kcfg, get_unique_target(kcfg))}

\* a worker has just initialised the proof of test u in a batch that has
\* rebuilt the setUp proof of its contract
InitialisedAfterNewSetUp(u) ==
  /\ Initialised(u)
  /\ hasSetUp[contract_name(u)]
  /\ SetUpOf(u) \in batch.out_of_date

C33_InitFromUniqueCover ==
  [][\A u \in all_tests :
       (/\ wk[u].st = "none" /\ wk'[u].st # "none"
        /\ hasSetUp[contract_name(u)]
        /\ u \in batch.out_of_date \/ proofFiles[proof_digest(u, mdigest)] = NoFile) =>
         LET covers == IF SetUpFile(u) = NoFile THEN {}
                       ELSE covers_into(Content(SetUpFile(u)).kcfg,
                                        get_unique_target(Content(SetUpFile(u)).kcfg))
         IN IF Cardinality(covers) = 1
            THEN /\ wk'[u].st = "running"
                 /\ \A c \in covers :
                      InitAccts(mem'[u]) = Content(SetUpFile(u)).kcfg.nodes[c[1]].accts
                 /\ proofFiles'[proof_digest(u, mdigest)] = mem'[u]
            ELSE wk'[u].st = "raised" /\ proofFiles' = proofFiles]_vars

\* the setUp proof has two nodes covered into its target, and the
\* initialisation of a test has raised and left no proof file
C33_Witness ==
  \E u \in all_tests :
    /\ wk[u].st = "raised"
    /\ SetUpFile(u) # NoFile
    /\ Cardinality(covers_into(Content(SetUpFile(u)).kcfg,
                               get_unique_target(Content(SetUpFile(u)).kcfg))) = 2
    /\ proofFiles[proof_digest(u, mdigest)] = NoFile

====
